---- MODULE Spec2Model ----
(***************************************************************************)
(* ReMarkable Reader Buddy: the orchestration state machine               *)
(* (workflow/orchestrator.rs, workflow/mod.rs), the durable symbol cycle  *)
(* (workflow/symbol_pool.rs) and the layered-variant buffer-chain walk    *)
(* (device/screenshot.rs).                                                *)
(*                                                                         *)
(* The specifications share the variables:                                 *)
(*   Spec      one process running run_loop or a single run_iteration      *)
(*   SpecSym   SymbolPool under next_symbol calls, crashes and restarts    *)
(*   SpecWalk  Screenshot::calculate_frame_pointer over a target memory    *)
(*   SpecKbd   Keyboard under string_to_keypresses, progress, progress_end *)
(*   SpecTouch Touch::wait_for_trigger over a stream of touch events       *)
(*   SpecXform Touch's coordinate transforms and trigger-zone test         *)
(*   SpecPen   Pen under draw_line, draw_bitmap and draw_rectangle         *)
(***************************************************************************)
EXTENDS Integers, Sequences, FiniteSets, TLC

VARIABLES
    \* ---- Orchestrator / Workflow ----
    pc,              \* position in run_loop / run_iteration / render_answer / probe
    mode,            \* "loop" (run_loop) or "once" (main's --once branch)
    page,            \* current page, relative to the page the trigger occurred on
    progress_count,  \* Keyboard.progress_count
    retval,          \* what the last run_iteration returned: "none", "Ok", "Err"
    it,              \* observations of the current iteration (history record)
    iters,           \* iterations started so far (bounded by MaxIterations)
    book,            \* the notebook: the page after the source page, pages created
    \* ---- SymbolPool ----
    current_index,   \* SymbolPool.current_index
    state_file,      \* the file /home/root/.reader-buddy-symbol-state
    calls,           \* results of the next_symbol calls of this process (last N+1)
    handed,          \* glyph indices handed out, across restarts (last N)
    nfail,           \* failed state-file writes so far (bounded by MaxWriteFailures)
    ncrash,          \* crashes so far (bounded by MaxCrashes)
    \* ---- Screenshot::calculate_frame_pointer ----
    mem,             \* record length stored in the header at each offset
    offset,          \* local `offset`
    length,          \* local `length`
    wpc,             \* "loop", "ok", "corrupt", "ioerr"
    reads,           \* headers read so far (bounded by MaxReads)
    wread,           \* the record lengths decoded so far, in reading order
    \* ---- Keyboard ----
    kdevice,         \* Keyboard.device is Some (false under no_draw)
    kpending,        \* key presses emitted by progress() since the last progress_end
    klast,           \* the last Keyboard call: what it was given and what it emitted
    kcalls,          \* Keyboard calls so far (bounded by MaxKbdCalls)
    \* ---- Touch ----
    device_model,    \* Touch.device_model
    trigger_corner,  \* Touch.trigger_corner
    tpos,            \* wait_for_trigger's locals <<position_x, position_y>>
    tslot,           \* the slot the last ABS_MT_SLOT event selected
    tcontacts,       \* per slot, the position reported for its contact in this wait
    tpc,             \* "waiting", "returned", "err"
    tret,            \* the release that made wait_for_trigger return
    tpolls,          \* passes of the loop that fetched no event (counted modulo MaxPolls)
    \* ---- Touch: transforms and zone test, applied to one canonical point ----
    gpoint,          \* the canonical point
    gnative,         \* virtual_to_input(gpoint)
    gpen,            \* Pen::virtual_to_input(gpoint)
    gback,           \* input_to_virtual(gnative)
    gzone,           \* the corner tested and is_in_trigger_zone's answer
    gpc,             \* "start", "native", "back", "zone"
    \* ---- Pen ----
    pdevice,         \* Pen.device is Some (false under no_draw)
    pen_contact,     \* the last contact change emitted to the pen device was a press
    plast,           \* the last primitive: its events as emitted and how it ended
    pcalls,          \* primitives run so far (bounded by MaxPenCalls)
    \* ---- Orchestrator::analyze_and_answer_single_call: the reply parser ----
    response,        \* the text llm.execute() returned
    parsed,          \* what the parser made of it ("pending" before it ran)
    clamped,         \* render_answer's clamped_box for parsed.question_box
    \* ---- Workflow::erase_region_smart ----
    eregion,         \* the BoundingBox `region`
    eimg,            \* the decoded screenshot (gray_img)
    erased,          \* the erase_rectangle calls made, in order
    epc,             \* "pending", "Ok", "Err"
    \* ---- Workflow::check_if_next_page_is_answer_page: the header scan ----
    himg,            \* the decoded screenshot of the next page (gray_img)
    hret,            \* "pending", "true", "false", "Err"
    \* ---- Touch gestures (tap_at, swipe_left, swipe_right) ----
    tdevice,         \* Touch.device is Some (false under no_draw)
    tstream,         \* the packets sent to the touch device, in order
    tgest,           \* the last gesture and how it returned
    tgcalls,         \* gestures run so far (bounded by MaxGestures)
    \* ---- Pen::draw_line applied to one pair of native points ----
    lends,           \* <<p1, p2>>
    lrun             \* what draw_line(p1, p2) emitted and whether it panicked

orchVars == <<pc, mode, page, progress_count, retval, it, iters, book>>
symVars  == <<current_index, state_file>>
symHist  == <<calls, handed, nfail, ncrash>>
walkVars == <<mem, offset, length, wpc, reads, wread>>
kbdVars  == <<kdevice, kpending, klast, kcalls>>
touchVars == <<device_model, trigger_corner, tpos, tslot, tcontacts, tpc, tret, tpolls>>
xformVars == <<gpoint, gnative, gpen, gback, gzone, gpc>>
penVars  == <<pdevice, pen_contact, plast, pcalls>>
parseVars == <<response, parsed, clamped>>
eraseVars == <<eregion, eimg, erased, epc>>
headerVars == <<himg, hret>>
gestVars == <<tdevice, tstream, tgest, tgcalls>>
lineVars == <<lends, lrun>>
extVars  == <<parseVars, eraseVars, headerVars, gestVars, lineVars>>
devVars  == <<kbdVars, touchVars, xformVars, penVars, extVars>>
vars == <<pc, mode, page, progress_count, retval, it, iters, book,
          current_index, state_file, calls, handed, nfail, ncrash,
          mem, offset, length, wpc, reads, wread,
          kdevice, kpending, klast, kcalls,
          device_model, trigger_corner, tpos, tslot, tcontacts, tpc, tret, tpolls,
          gpoint, gnative, gpen, gback, gzone, gpc,
          pdevice, pen_contact, plast, pcalls,
          response, parsed, clamped,
          eregion, eimg, erased, epc,
          himg, hret,
          tdevice, tstream, tgest, tgcalls,
          lends, lrun>>

(***************************************************************************)
(* Bounds of the model                                                     *)
(***************************************************************************)
MaxFileLen == 2
MaxWriteFailures == 1
MaxCrashes == 1
MaxOffset == 3
MaxReads == 6
MaxIterations == 2
MaxTextLen == 2
MaxKbdCalls == 3
MaxPenCalls == 2
MaxGestures == 2

(***************************************************************************)
(* SymbolPool (workflow/symbol_pool.rs)                                    *)
(***************************************************************************)
symbols == <<"c1", "c2", "c3", "c4", "c5", "c6", "c7", "c8", "c9", "c10">>
N == Len(symbols)

Digits == <<"0", "1", "2", "3", "4", "5", "6", "7", "8", "9">>
DigitSet == {Digits[i] : i \in 1..10}
DigitVal(c) == (CHOOSE i \in 1..10 : Digits[i] = c) - 1

\* str::trim: strip leading and trailing whitespace
Whitespace == {" ", "\n", "\t", "\r"}
RECURSIVE TrimLeft(_)
TrimLeft(s) == IF s # <<>> /\ Head(s) \in Whitespace THEN TrimLeft(Tail(s)) ELSE s
RECURSIVE TrimRight(_)
TrimRight(s) ==
    IF s # <<>> /\ s[Len(s)] \in Whitespace
    THEN TrimRight(SubSeq(s, 1, Len(s) - 1)) ELSE s
trim(s) == TrimRight(TrimLeft(s))

\* str::parse::<usize>: an optional '+', then one or more decimal digits
RECURSIVE DecValue(_)
DecValue(s) ==
    IF s = <<>> THEN 0
    ELSE 10 * DecValue(SubSeq(s, 1, Len(s) - 1)) + DigitVal(s[Len(s)])
UnsignedBody(s) == IF s # <<>> /\ Head(s) = "+" THEN Tail(s) ELSE s
ParseOk(s) ==
    /\ UnsignedBody(s) # <<>>
    /\ \A i \in 1..Len(UnsignedBody(s)) : UnsignedBody(s)[i] \in DigitSet
parse_usize(s) == DecValue(UnsignedBody(s))

\* usize::to_string: decimal, no sign, no leading zeros
RECURSIVE to_string(_)
to_string(n) ==
    IF n < 10 THEN <<Digits[n + 1]>> ELSE to_string(n \div 10) \o <<Digits[(n % 10) + 1]>>

\* The state file: whether it exists, whether it can be read, its text.
NoFile == [exists |-> FALSE, readable |-> TRUE, content |-> <<>>]
FileWith(s) == [exists |-> TRUE, readable |-> TRUE, content |-> s]

\* SymbolPool::load applied to a pool with index `idx`: the index afterwards.
load_no_modulo(idx, file) ==
    IF file.exists /\ file.readable /\ ParseOk(trim(file.content))
    THEN parse_usize(trim(file.content))
    ELSE idx
load(idx, file) ==
    IF file.exists
    THEN IF ~file.readable
         THEN idx                                   \* read_to_string fails: Err
         ELSE IF ParseOk(trim(file.content))
              THEN parse_usize(trim(file.content)) % N
              ELSE idx
    ELSE idx

\* Orchestrator::new: SymbolPool::new() (index 0), then load, its result dropped.
NewPoolIndex(file) == load(0, file)

\* SymbolPool::save with the outcome of fs::write: "ok" writes the text;
\* a failed write leaves the file as it was ("fail_open": the file could not be
\* opened) or empty ("fail_write": created/truncated, then the write failed).
WriteOutcomes == {"ok", "fail_open", "fail_write"}
save(idx, file, outcome) ==
    CASE outcome = "ok" -> [file EXCEPT !.exists = TRUE, !.content = to_string(idx)]
      [] outcome = "fail_open" -> file
      [] outcome = "fail_write" -> [file EXCEPT !.exists = TRUE, !.content = <<>>]

\* SymbolPool::next_symbol: the index is advanced, then saved; `?` on save.
Err == "Err"
next_index(idx) == (idx + 1) % N
next_symbol_result(idx, outcome) == IF outcome = "ok" THEN symbols[idx + 1] ELSE Err


(***************************************************************************)
(* SpecSym: the symbol pool of one device over process lifetimes.          *)
(***************************************************************************)
FileChars == {"0", "1", "3", "x", " ", "+", "-"}
Texts(n) == UNION {[1..k -> FileChars] : k \in 0..n}
InitFiles ==
    {NoFile} \cup
    {[exists |-> TRUE, readable |-> r, content |-> s] : r \in BOOLEAN, s \in Texts(MaxFileLen)}

Window(s, n) == IF Len(s) > n THEN SubSeq(s, Len(s) - n + 1, Len(s)) ELSE s

NoBook ==
    [ink |-> FALSE, ink0 |-> FALSE, created |-> 0, good |-> 0, other |-> FALSE,
     blind |-> FALSE]
OrchIdle ==
    /\ pc = "off" /\ mode = "off" /\ page = 0 /\ progress_count = 0
    /\ retval = "none" /\ it = [started |-> FALSE] /\ iters = 0
    /\ book = NoBook
WalkIdle ==
    /\ mem = <<>> /\ offset = 0 /\ length = 2 /\ wpc = "off" /\ reads = 0
    /\ wread = <<>>
SymHistIdle ==
    /\ calls = <<>> /\ handed = <<>> /\ nfail = 0 /\ ncrash = 0
KbdIdle ==
    /\ kdevice = TRUE /\ kpending = 0 /\ klast = [op |-> "none"] /\ kcalls = 0
NoContact == [x |-> <<>>, y |-> <<>>]
TouchIdle ==
    /\ device_model = "Unknown" /\ trigger_corner = "UpperRight"
    /\ tpos = <<0, 0>> /\ tslot = 0 /\ tcontacts = <<>>
    /\ tpc = "off" /\ tret = NoContact /\ tpolls = 0
XformIdle ==
    /\ gpoint = <<0, 0>> /\ gnative = <<>> /\ gpen = <<>> /\ gback = <<>> /\ gzone = <<>>
    /\ gpc = "off"
NoPrimitive ==
    [op |-> "none", bitmap |-> <<>>, events |-> <<>>, result |-> "none",
     before |-> [contact |-> FALSE, at |-> <<>>], at |-> <<>>]
PenIdle ==
    /\ pdevice = TRUE /\ pen_contact = FALSE /\ plast = NoPrimitive /\ pcalls = 0
NoBox == [some |-> FALSE, x |-> 0, y |-> 0, width |-> 0, height |-> 0]
NotParsed(kind) ==
    [kind |-> kind, question |-> <<>>, answer |-> <<>>,
     question_box |-> NoBox, outline_box |-> NoBox]
ParseIdle ==
    /\ response = <<>> /\ parsed = NotParsed("off") /\ clamped = NoBox
NoImage == [width |-> 0, height |-> 0, dark |-> {}, luma |-> 255]
EraseIdle ==
    /\ eregion = NoBox /\ eimg = NoImage /\ erased = <<>> /\ epc = "off"
HeaderIdle ==
    /\ himg = NoImage /\ hret = "off"
NoGesture == [op |-> "none", result |-> "none", clean |-> TRUE]
GestIdle ==
    /\ tdevice = TRUE /\ tstream = <<>> /\ tgest = NoGesture /\ tgcalls = 0
NoLine == [events |-> <<>>, panics |-> FALSE, done |-> FALSE]
LineIdle ==
    /\ lends = <<>> /\ lrun = NoLine
ExtIdle ==
    /\ ParseIdle
    /\ EraseIdle
    /\ HeaderIdle
    /\ GestIdle
    /\ LineIdle
DevIdle ==
    /\ KbdIdle
    /\ TouchIdle
    /\ XformIdle
    /\ PenIdle
    /\ ExtIdle

SymInit ==
    /\ state_file \in InitFiles
    /\ current_index = NewPoolIndex(state_file)
    /\ SymHistIdle
    /\ OrchIdle
    /\ WalkIdle
    /\ DevIdle

\* One call of SymbolPool::next_symbol, with the outcome of its fs::write.
SymNextSymbol(outcome) ==
    /\ outcome = "ok" \/ nfail < MaxWriteFailures
    /\ current_index' = next_index(current_index)
    /\ state_file' = save(current_index', state_file, outcome)
    /\ calls' = Window(Append(calls, next_symbol_result(current_index, outcome)), N + 1)
    /\ handed' = IF outcome = "ok"
                 THEN Window(Append(handed, symbols[current_index + 1]), N)
                 ELSE handed
    /\ nfail' = IF outcome = "ok" THEN nfail ELSE nfail + 1
    /\ UNCHANGED <<ncrash, orchVars, walkVars, devVars>>

\* The process is killed and started again (Orchestrator::new loads the file).
\* "idle": outside fs::write, the file is as the last write left it;
\* "in_write": inside next_symbol's fs::write, after the file was truncated;
\* "after_save": inside next_symbol, after save and before the glyph is returned.
CrashPoints == {"idle", "in_write", "after_save"}
FileAtCrash(point) ==
    CASE point = "idle" -> state_file
      [] point = "in_write" -> [state_file EXCEPT !.exists = TRUE, !.content = <<>>]
      [] point = "after_save" -> save(next_index(current_index), state_file, "ok")
SymCrashRestart(point) ==
    /\ ncrash < MaxCrashes
    /\ state_file' = FileAtCrash(point)
    /\ current_index' = NewPoolIndex(state_file')
    /\ calls' = <<>>
    /\ ncrash' = ncrash + 1
    /\ UNCHANGED <<handed, nfail, orchVars, walkVars, devVars>>

SymNext ==
    \/ \E outcome \in WriteOutcomes : SymNextSymbol(outcome)
    \/ \E point \in CrashPoints : SymCrashRestart(point)

SpecSym == SymInit /\ [][SymNext]_vars

(***************************************************************************)
(* SpecWalk: Screenshot::calculate_frame_pointer (layered variant).        *)
(***************************************************************************)
screen_width(model) == IF model = "RemarkablePaperPro" THEN 1632 ELSE 1872
screen_height(model) == IF model = "RemarkablePaperPro" THEN 2154 ELSE 1404
bytes_per_pixel(model) == IF model = "RemarkablePaperPro" THEN 4 ELSE 2
\* find_framebuffer_address walks the chain for RemarkablePaperPro only
screen_size_bytes ==
    screen_width("RemarkablePaperPro") * screen_height("RemarkablePaperPro")
        * bytes_per_pixel("RemarkablePaperPro")

\* The little-endian u32 stored at start_address + offset + 8, for each offset
\* of the readable part of the target's memory.
RecordLengths == {0, 1, 2, 3, 4, screen_size_bytes}

WalkInit ==
    /\ mem \in [0..MaxOffset -> RecordLengths]
    /\ offset = 0
    /\ length = 2
    /\ wpc = "loop"
    /\ reads = 0
    /\ wread = <<>>
    /\ current_index = 0 /\ state_file = NoFile
    /\ SymHistIdle
    /\ OrchIdle
    /\ DevIdle

\* The advance of one loop round.
Advance_whole_record(len) == len
Advance(len) == len - 2

\* One round of `while length < screen_size_bytes`: advance, seek, read_exact,
\* decode the length, bail if it is below 2.
WalkRound ==
    /\ wpc = "loop"
    /\ length < screen_size_bytes
    /\ reads < MaxReads
    /\ offset' = offset + Advance(length)
    /\ reads' = reads + 1
    /\ IF offset' \in DOMAIN mem
       THEN /\ length' = mem[offset']
            /\ wread' = Append(wread, length')
            /\ wpc' = IF length' < 2 THEN "corrupt" ELSE "loop"
       ELSE /\ length' = length                      \* read_exact fails: Err
            /\ wread' = wread
            /\ wpc' = "ioerr"
    /\ UNCHANGED <<mem, orchVars, symVars, symHist, devVars>>

\* The loop condition fails: Ok(start_address + offset).
WalkReturn ==
    /\ wpc = "loop"
    /\ length >= screen_size_bytes
    /\ wpc' = "ok"
    /\ UNCHANGED <<mem, offset, length, reads, wread, orchVars, symVars, symHist, devVars>>

WalkNext == WalkRound \/ WalkReturn

SpecWalk == WalkInit /\ [][WalkNext]_vars


(***************************************************************************)
(* Keyboard (device/keyboard.rs).  A text is a sequence of characters; a   *)
(* character is named by a string ("u00E9" is U+00E9, "c1".."c10" are the  *)
(* circled digits of the symbol pool, "^H" is backspace).                  *)
(***************************************************************************)
\* create_key_map: the entries of the table for the characters used here
KeyMapChars == {"a", "q", "A", "Q", "3", ":", "=", "-", " ", "\n", "^H"}
InKeyMap(c) == c \in KeyMapChars
key_map(c) ==
    CASE c = "a"  -> [key |-> "KEY_A", shift |-> FALSE]
      [] c = "q"  -> [key |-> "KEY_Q", shift |-> FALSE]
      [] c = "A"  -> [key |-> "KEY_A", shift |-> TRUE]
      [] c = "Q"  -> [key |-> "KEY_Q", shift |-> TRUE]
      [] c = "3"  -> [key |-> "KEY_3", shift |-> FALSE]
      [] c = ":"  -> [key |-> "KEY_SEMICOLON", shift |-> TRUE]
      [] c = "="  -> [key |-> "KEY_EQUAL", shift |-> FALSE]
      [] c = "-"  -> [key |-> "KEY_MINUS", shift |-> FALSE]
      [] c = " "  -> [key |-> "KEY_SPACE", shift |-> FALSE]
      [] c = "\n" -> [key |-> "KEY_ENTER", shift |-> FALSE]
      [] c = "^H" -> [key |-> "KEY_BACKSPACE", shift |-> FALSE]

\* str::len counts bytes: the UTF-8 length of each character
utf8_len(c) ==
    IF \E i \in 1..N : symbols[i] = c THEN 3
    ELSE IF c = "u00E9" THEN 2
    ELSE 1
RECURSIVE note_len(_)
note_len(note) == IF note = <<>> THEN 0 ELSE utf8_len(Head(note)) + note_len(Tail(note))

\* Where an emit of string_to_keypresses can fail: nowhere (NoFail), or after n
\* whole key presses (n = 0 is the leading SYN; the last press leaves nothing
\* to fail).
NoFail == -1
EmitFailures(input, device) ==
    IF ~device THEN {NoFail}
    ELSE {NoFail} \cup 0..(IF SelectSeq(input, InKeyMap) = <<>> THEN 0
                          ELSE Len(SelectSeq(input, InKeyMap)) - 1)

\* string_to_keypresses(input): with no device nothing is emitted; a character
\* missing from key_map is passed over; each other one is pressed and released
\* (under shift when the table says so); an emit error returns Err at once.
string_to_keypresses_stop_at_unsupported(input, device, failAfter) ==
    LET RECURSIVE Prefix(_)
        Prefix(t) == IF t = <<>> \/ ~InKeyMap(Head(t)) THEN <<>>
                     ELSE <<Head(t)>> \o Prefix(Tail(t))
        done == IF failAfter = NoFail THEN Prefix(input)
                ELSE SubSeq(Prefix(input), 1, failAfter)
    IN  IF ~device THEN [chars |-> <<>>, keys |-> <<>>, ok |-> TRUE]
        ELSE [chars |-> done,
              keys |-> [i \in 1..Len(done) |-> key_map(done[i])],
              ok |-> failAfter = NoFail]
string_to_keypresses(input, device, failAfter) ==
    LET pressed == SelectSeq(input, InKeyMap)
        done == IF failAfter = NoFail THEN pressed ELSE SubSeq(pressed, 1, failAfter)
    IN  IF ~device THEN [chars |-> <<>>, keys |-> <<>>, ok |-> TRUE]
        ELSE [chars |-> done,
              keys |-> [i \in 1..Len(done) |-> key_map(done[i])],
              ok |-> failAfter = NoFail]

\* The events of string_to_keypresses, one per device.emit call.
KeyDown(key) == [e |-> "key", code |-> key, value |-> 1]
KeyUp(key) == [e |-> "key", code |-> key, value |-> 0]
Syn == [e |-> "syn", code |-> "SYN_REPORT", value |-> 0]

\* the emits for one character of key_map: shift down, key down, key up, shift
\* up, sync
keypress_events_shift_kept(c) ==
    (IF key_map(c).shift THEN <<KeyDown("KEY_LEFTSHIFT")>> ELSE <<>>)
        \o <<KeyDown(key_map(c).key), KeyUp(key_map(c).key)>>
        \o <<Syn>>
keypress_events(c) ==
    (IF key_map(c).shift THEN <<KeyDown("KEY_LEFTSHIFT")>> ELSE <<>>)
        \o <<KeyDown(key_map(c).key), KeyUp(key_map(c).key)>>
        \o (IF key_map(c).shift THEN <<KeyUp("KEY_LEFTSHIFT")>> ELSE <<>>)
        \o <<Syn>>
RECURSIVE chars_events(_)
chars_events(input) ==
    IF input = <<>> THEN <<>>
    ELSE (IF InKeyMap(Head(input)) THEN keypress_events(Head(input)) ELSE <<>>)
         \o chars_events(Tail(input))
\* everything string_to_keypresses(input) emits when no emit fails: the leading
\* sync, then the characters
type_events(input, device) == IF ~device THEN <<>> ELSE <<Syn>> \o chars_events(input)

\* Where an emit can fail, counted in events already emitted; the whole key
\* presses (sync included) among the first n events
EventFailures(input, device) ==
    IF ~device THEN {NoFail} ELSE {NoFail} \cup 0..(Len(type_events(input, device)) - 1)
presses_in(events) ==
    IF events = <<>> THEN 0
    ELSE Cardinality({i \in 1..Len(events) : events[i] = Syn}) - 1

\* Keyboard::key_down / key_up: the key event, then a sync, one emit each
key_down(key) == <<KeyDown(key), Syn>>
key_up(key) == <<KeyUp(key), Syn>>
\* Keyboard::key_cmd(button, shift) when no emit fails: Ctrl (and Shift) down,
\* the button typed, (Shift and) Ctrl up
key_cmd(button, shift, device) ==
    IF ~device THEN <<>>
    ELSE key_down("KEY_LEFTCTRL")
         \o (IF shift THEN key_down("KEY_LEFTSHIFT") ELSE <<>>)
         \o type_events(button, device)
         \o (IF shift THEN key_up("KEY_LEFTSHIFT") ELSE <<>>)
         \o key_up("KEY_LEFTCTRL")
\* Keyboard::key_cmd_body
key_cmd_body(device) == key_cmd(<<"3">>, FALSE, device)

\* progress(note): the count grows by note.len() once the note is typed
progress(len, ok) == IF ok THEN progress_count + len ELSE progress_count
\* progress_end(): the count is reset once every backspace is typed
progress_end(ok) == IF ok THEN 0 ELSE progress_count

\* progress_end(): one string_to_keypresses("\x08") per unit of progress_count;
\* `failAfter` whole backspaces were emitted when an emit fails.
progress_end_backspaces(count, device, failAfter) ==
    IF ~device THEN 0 ELSE IF failAfter = NoFail THEN count ELSE failAfter
BackspaceFailures(count, device) ==
    IF ~device THEN {NoFail} ELSE {NoFail} \cup 0..(count - 1)

(***************************************************************************)
(* SpecKbd: one Keyboard under calls of string_to_keypresses, progress and *)
(* progress_end.  Workflow::new builds it with no_draw_progress = false.   *)
(***************************************************************************)
KbdChars == {"a", "A", "u00E9"}
KbdTexts == UNION {[1..k -> KbdChars] : k \in 0..MaxTextLen}

KbdInit ==
    /\ kdevice \in BOOLEAN
    /\ kpending = 0
    /\ klast = [op |-> "none"]
    /\ kcalls = 0
    /\ current_index = 0 /\ state_file = NoFile
    /\ SymHistIdle
    /\ OrchIdle
    /\ ExtIdle
    /\ WalkIdle
    /\ TouchIdle
    /\ XformIdle
    /\ PenIdle

\* Keyboard::string_to_keypresses(text); the emit after `failAt` events fails
KbdType(text, failAt) ==
    /\ kcalls < MaxKbdCalls
    /\ failAt \in EventFailures(text, kdevice)
    /\ LET events == IF failAt = NoFail THEN type_events(text, kdevice)
                     ELSE SubSeq(type_events(text, kdevice), 1, failAt)
           failAfter == IF failAt = NoFail THEN NoFail ELSE presses_in(events)
       IN  klast' = [op |-> "type", text |-> text, fail |-> failAfter,
                     typed |-> string_to_keypresses(text, kdevice, failAfter),
                     events |-> events]
    /\ kcalls' = kcalls + 1
    /\ UNCHANGED <<kdevice, kpending, orchVars, symVars, symHist, walkVars,
                   touchVars, xformVars, penVars, extVars>>

\* Keyboard::progress(note)
KbdProgress(note, failAfter) ==
    /\ kcalls < MaxKbdCalls
    /\ failAfter \in EmitFailures(note, kdevice)
    /\ LET typed == string_to_keypresses(note, kdevice, failAfter)
       IN  /\ progress_count' = progress(note_len(note), typed.ok)
           /\ kpending' = kpending + Len(typed.keys)
           /\ klast' = [op |-> "progress", text |-> note, fail |-> failAfter,
                        typed |-> typed]
    /\ kcalls' = kcalls + 1
    /\ UNCHANGED <<kdevice, pc, mode, page, retval, it, iters, book, symVars, symHist, walkVars,
                   touchVars, xformVars, penVars, extVars>>

\* Keyboard::progress_end()
KbdProgressEnd(failAfter) ==
    /\ kcalls < MaxKbdCalls
    /\ failAfter \in BackspaceFailures(progress_count, kdevice)
    /\ progress_count' = progress_end(failAfter = NoFail)
    /\ klast' = [op |-> "progress_end", fail |-> failAfter,
                 pending |-> kpending,
                 back |-> progress_end_backspaces(progress_count, kdevice, failAfter),
                 ok |-> failAfter = NoFail]
    /\ kpending' = IF failAfter = NoFail THEN 0
                   ELSE kpending - progress_end_backspaces(progress_count, kdevice, failAfter)
    /\ kcalls' = kcalls + 1
    /\ UNCHANGED <<kdevice, pc, mode, page, retval, it, iters, book, symVars, symHist, walkVars,
                   touchVars, xformVars, penVars, extVars>>

\* Keyboard::key_cmd_body(); the emit after `failAt` events fails (`?`)
KbdKeyCmdBody(failAt) ==
    /\ kcalls < MaxKbdCalls
    /\ failAt \in IF ~kdevice THEN {NoFail}
                   ELSE {NoFail} \cup 0..(Len(key_cmd_body(kdevice)) - 1)
    /\ klast' = [op |-> "key_cmd_body", fail |-> failAt,
                 events |-> IF failAt = NoFail THEN key_cmd_body(kdevice)
                            ELSE SubSeq(key_cmd_body(kdevice), 1, failAt),
                 result |-> IF failAt = NoFail THEN "Ok" ELSE "Err"]
    /\ kcalls' = kcalls + 1
    /\ UNCHANGED <<kdevice, kpending, orchVars, symVars, symHist, walkVars,
                   touchVars, xformVars, penVars, extVars>>

KbdNext ==
    \/ \E text \in KbdTexts, f \in {NoFail} \cup 0..(5 * MaxTextLen) : KbdType(text, f)
    \/ \E note \in KbdTexts, f \in {NoFail} \cup 0..MaxTextLen : KbdProgress(note, f)
    \/ \E f \in {NoFail} \cup 0..(MaxTextLen * MaxKbdCalls * 2) : KbdProgressEnd(f)
    \/ \E f \in {NoFail} \cup 0..7 : KbdKeyCmdBody(f)

SpecKbd == KbdInit /\ [][KbdNext]_vars

(***************************************************************************)
(* Touch (device/touch.rs)                                                 *)
(***************************************************************************)
VIRTUAL_WIDTH == 768
VIRTUAL_HEIGHT == 1024
CORNER_SIZE == 68

DeviceModels == {"Remarkable2", "RemarkablePaperPro", "Unknown"}
TriggerCorners == {"UpperRight", "UpperLeft", "LowerRight", "LowerLeft"}

\* Touch::screen_width / screen_height: the native touch resolution
touch_screen_width(model) == IF model = "RemarkablePaperPro" THEN 2065 ELSE 1404
touch_screen_height(model) == IF model = "RemarkablePaperPro" THEN 2833 ELSE 1872

\* (n / d) as i32: the quotient truncated toward zero.  The code computes it in
\* f32 (v as f32 / range as f32 * range' as f32); on the ranges of both
\* resolutions the f32 result truncates to the same integer as the exact quotient.
Trunc(n, d) == IF n >= 0 THEN n \div d ELSE -((-n) \div d)

\* Touch::virtual_to_input: canonical -> native; the y axis is flipped except
\* on RemarkablePaperPro
virtual_to_input(model, p) ==
    IF model = "RemarkablePaperPro"
    THEN <<Trunc(p[1] * touch_screen_width(model), VIRTUAL_WIDTH),
           Trunc(p[2] * touch_screen_height(model), VIRTUAL_HEIGHT)>>
    ELSE <<Trunc(p[1] * touch_screen_width(model), VIRTUAL_WIDTH),
           Trunc((VIRTUAL_HEIGHT - p[2]) * touch_screen_height(model), VIRTUAL_HEIGHT)>>

\* Touch::input_to_virtual: native -> canonical
input_to_virtual_no_flip(model, p) ==
    <<Trunc(p[1] * VIRTUAL_WIDTH, touch_screen_width(model)),
      Trunc(p[2] * VIRTUAL_HEIGHT, touch_screen_height(model))>>
input_to_virtual(model, p) ==
    IF model = "RemarkablePaperPro"
    THEN <<Trunc(p[1] * VIRTUAL_WIDTH, touch_screen_width(model)),
           Trunc(p[2] * VIRTUAL_HEIGHT, touch_screen_height(model))>>
    ELSE <<Trunc(p[1] * VIRTUAL_WIDTH, touch_screen_width(model)),
           Trunc((touch_screen_height(model) - p[2]) * VIRTUAL_HEIGHT,
                 touch_screen_height(model))>>

\* Touch::is_in_trigger_zone
is_in_trigger_zone(corner, x, y) ==
    CASE corner = "UpperRight" -> x > VIRTUAL_WIDTH - CORNER_SIZE /\ y < CORNER_SIZE
      [] corner = "UpperLeft"  -> x < CORNER_SIZE /\ y < CORNER_SIZE
      [] corner = "LowerRight" -> x > VIRTUAL_WIDTH - CORNER_SIZE
                                  /\ y > VIRTUAL_HEIGHT - CORNER_SIZE
      [] corner = "LowerLeft"  -> x < CORNER_SIZE /\ y > VIRTUAL_HEIGHT - CORNER_SIZE

\* Pen::max_x_value / max_y_value: the native pen resolution
max_x_value(model) == IF model = "RemarkablePaperPro" THEN 11180 ELSE 15725
max_y_value(model) == IF model = "RemarkablePaperPro" THEN 15340 ELSE 20966

\* Pen::virtual_to_input: canonical -> native; the axes are swapped and one is
\* flipped except on RemarkablePaperPro.  The f32 products truncate to the
\* same integers as the exact quotients on the whole workspace.
pen_virtual_to_input_no_swap(model, p) ==
    <<Trunc(p[1] * max_x_value(model), VIRTUAL_WIDTH),
      Trunc(p[2] * max_y_value(model), VIRTUAL_HEIGHT)>>
pen_virtual_to_input(model, p) ==
    IF model = "RemarkablePaperPro"
    THEN <<Trunc(p[1] * max_x_value(model), VIRTUAL_WIDTH),
           Trunc(p[2] * max_y_value(model), VIRTUAL_HEIGHT)>>
    ELSE <<Trunc((VIRTUAL_HEIGHT - p[2]) * max_y_value(model), VIRTUAL_HEIGHT),
           Trunc(p[1] * max_x_value(model), VIRTUAL_WIDTH)>>

(***************************************************************************)
(* SpecXform: the transforms and the zone test applied to canonical points *)
(***************************************************************************)
\* Every x of the workspace on the rows, and every y on the columns, that lie
\* at the edges of the zones and at the workspace center.
EdgeXs == {0, CORNER_SIZE - 1, CORNER_SIZE, VIRTUAL_WIDTH \div 2,
           VIRTUAL_WIDTH - CORNER_SIZE - 1, VIRTUAL_WIDTH - CORNER_SIZE,
           VIRTUAL_WIDTH - CORNER_SIZE + 1, VIRTUAL_WIDTH - 1}
EdgeYs == {0, CORNER_SIZE - 1, CORNER_SIZE, VIRTUAL_HEIGHT \div 2,
           VIRTUAL_HEIGHT - CORNER_SIZE - 1, VIRTUAL_HEIGHT - CORNER_SIZE,
           VIRTUAL_HEIGHT - CORNER_SIZE + 1, VIRTUAL_HEIGHT - 1}
CanonicalPoints ==
    ((0..(VIRTUAL_WIDTH - 1)) \X EdgeYs) \cup (EdgeXs \X (0..(VIRTUAL_HEIGHT - 1)))

XformInit ==
    /\ device_model \in DeviceModels
    /\ trigger_corner = "UpperRight"
    /\ gpoint \in CanonicalPoints
    /\ gnative = <<>> /\ gpen = <<>> /\ gback = <<>> /\ gzone = <<>>
    /\ gpc = "start"
    /\ tpos = <<0, 0>> /\ tslot = 0 /\ tcontacts = <<>> /\ tpc = "off" /\ tret = NoContact
    /\ tpolls = 0
    /\ current_index = 0 /\ state_file = NoFile
    /\ SymHistIdle
    /\ OrchIdle
    /\ ExtIdle
    /\ WalkIdle
    /\ KbdIdle
    /\ PenIdle

\* touch_start / goto_xy: virtual_to_input(xy)
XformToInput ==
    /\ gpc = "start"
    /\ gnative' = virtual_to_input(device_model, gpoint)
    /\ gpen' = pen_virtual_to_input(device_model, gpoint)
    /\ gpc' = "native"
    /\ UNCHANGED <<gpoint, gback, gzone, orchVars, symVars, symHist, walkVars, kbdVars,
                   touchVars, penVars, extVars>>

\* wait_for_trigger: input_to_virtual((position_x, position_y))
XformToVirtual ==
    /\ gpc = "native"
    /\ gback' = input_to_virtual(device_model, gnative)
    /\ gpc' = "back"
    /\ UNCHANGED <<gpoint, gnative, gpen, gzone, orchVars, symVars, symHist, walkVars, kbdVars,
                   touchVars, penVars, extVars>>

\* is_in_trigger_zone(x, y) of a Touch configured with `corner`
XformZone(corner) ==
    /\ gpc = "start"
    /\ gzone' = <<corner, is_in_trigger_zone(corner, gpoint[1], gpoint[2])>>
    /\ gpc' = "zone"
    /\ UNCHANGED <<gpoint, gnative, gpen, gback, orchVars, symVars, symHist, walkVars, kbdVars,
                   touchVars, penVars, extVars>>

XformNext ==
    \/ XformToInput
    \/ XformToVirtual
    \/ \E corner \in TriggerCorners : XformZone(corner)

SpecXform == XformInit /\ [][XformNext]_vars

(***************************************************************************)
(* SpecTouch: Touch::wait_for_trigger, one action per event of its loop.   *)
(* Multitouch protocol B: ABS_MT_SLOT selects the slot the following       *)
(* events belong to; ABS_MT_TRACKING_ID -1 releases that slot's contact.   *)
(***************************************************************************)
Slots == {0, 1}
\* native coordinates near the origin and near the far edge
NativeXs(model) == {5, touch_screen_width(model) - 5}
NativeYs(model) == {5, touch_screen_height(model) - 5}

TouchInit ==
    /\ device_model \in DeviceModels
    /\ trigger_corner \in TriggerCorners
    /\ tpos = <<0, 0>>
    /\ tslot = 0
    /\ tcontacts = [s \in Slots |-> NoContact]
    /\ tpc = "waiting"
    /\ tret = NoContact
    /\ tpolls = 0
    /\ current_index = 0 /\ state_file = NoFile
    /\ SymHistIdle
    /\ OrchIdle
    /\ ParseIdle
    /\ EraseIdle
    /\ HeaderIdle
    /\ LineIdle
    /\ tdevice \in BOOLEAN
    /\ tstream = <<>> /\ tgest = NoGesture /\ tgcalls = 0
    /\ WalkIdle
    /\ KbdIdle
    /\ XformIdle
    /\ PenIdle

\* An ABS_MT_SLOT event: no branch of the loop looks at it.
TouchSlot(s) ==
    /\ tdevice
    /\ tpc = "waiting"
    /\ tslot' = s
    /\ UNCHANGED <<tpolls, device_model, trigger_corner, tpos, tcontacts, tpc, tret,
                   orchVars, symVars, symHist, walkVars, kbdVars, xformVars, penVars, extVars>>

\* touch.rs 88-90: ABS_MT_POSITION_X
TouchPositionX(v) ==
    /\ tdevice
    /\ tpc = "waiting"
    /\ tpos' = <<v, tpos[2]>>
    /\ tcontacts' = [tcontacts EXCEPT ![tslot].x = <<v>>]
    /\ UNCHANGED <<tpolls, device_model, trigger_corner, tslot, tpc, tret,
                   orchVars, symVars, symHist, walkVars, kbdVars, xformVars, penVars, extVars>>

\* touch.rs 91-93: ABS_MT_POSITION_Y
TouchPositionY(v) ==
    /\ tdevice
    /\ tpc = "waiting"
    /\ tpos' = <<tpos[1], v>>
    /\ tcontacts' = [tcontacts EXCEPT ![tslot].y = <<v>>]
    /\ UNCHANGED <<tpolls, device_model, trigger_corner, tslot, tpc, tret,
                   orchVars, symVars, symHist, walkVars, kbdVars, xformVars, penVars, extVars>>

\* An ABS_MT_TRACKING_ID event with a value >= 0: a new contact in the slot.
TouchContact ==
    /\ tdevice
    /\ tpc = "waiting"
    /\ tcontacts' = [tcontacts EXCEPT ![tslot] = NoContact]
    /\ UNCHANGED <<tpolls, device_model, trigger_corner, tpos, tslot, tpc, tret,
                   orchVars, symVars, symHist, walkVars, kbdVars, xformVars, penVars, extVars>>

\* touch.rs 94-101: ABS_MT_TRACKING_ID with value -1, the release of the
\* contact of the selected slot
release_hits(model, corner, position) ==
    is_in_trigger_zone(corner, input_to_virtual(model, position)[1],
                       input_to_virtual(model, position)[2])
TouchRelease ==
    /\ tdevice
    /\ tpc = "waiting"
    /\ tpc' = IF release_hits(device_model, trigger_corner, tpos)
              THEN "returned" ELSE "waiting"
    /\ tret' = IF release_hits(device_model, trigger_corner, tpos)
               THEN tcontacts[tslot] ELSE tret
    /\ tcontacts' = [tcontacts EXCEPT ![tslot] = NoContact]
    /\ UNCHANGED <<tpolls, device_model, trigger_corner, tpos, tslot,
                   orchVars, symVars, symHist, walkVars, kbdVars, xformVars, penVars, extVars>>

\* touch.rs 81: `device.fetch_events()?`
TouchFetchFails ==
    /\ tdevice
    /\ tpc = "waiting"
    /\ tpc' = "err"
    /\ UNCHANGED <<tpolls, device_model, trigger_corner, tpos, tslot, tcontacts, tret,
                   orchVars, symVars, symHist, walkVars, kbdVars, xformVars, penVars, extVars>>

\* touch.rs 77-86 with `self.device` None (Touch::new under no_touch): the
\* pass fetches nothing, processes nothing and the loop starts over
MaxPolls == 3
TouchPoll ==
    /\ ~tdevice
    /\ tpc = "waiting"
    /\ tpolls' = (tpolls + 1) % MaxPolls
    /\ UNCHANGED <<device_model, trigger_corner, tpos, tslot, tcontacts, tpc, tret,
                   orchVars, symVars, symHist, walkVars, kbdVars, xformVars, penVars, extVars>>

TouchNext ==
    \/ \E s \in Slots : TouchSlot(s)
    \/ \E v \in NativeXs(device_model) : TouchPositionX(v)
    \/ \E v \in NativeYs(device_model) : TouchPositionY(v)
    \/ TouchContact
    \/ TouchRelease
    \/ TouchFetchFails
    \/ TouchPoll

SpecTouch == TouchInit /\ [][TouchNext]_vars

\* The loop of wait_for_trigger is a running thread: a pass that can be made
\* is made.  Nothing obliges the user to touch the screen.
SpecTouchFair == SpecTouch /\ WF_vars(TouchPoll)

(***************************************************************************)
(* Pen (device/pen.rs).  An event is one send_events call: a lift (pen_up), *)
(* a press (pen_down) or a move (goto_xy) to a native point.               *)
(***************************************************************************)
Lift == [e |-> "up", at |-> <<>>]
Press == [e |-> "down", at |-> <<>>]
Goto(p) == [e |-> "goto", at |-> p]

Abs(n) == IF n >= 0 THEN n ELSE -n

\* pen.rs 47-49: steps = ceil(sqrt(dx^2 + dy^2) / 5.0), the least n with
\* (5 n)^2 >= dx^2 + dy^2
line_steps(p1, p2) ==
    LET d2 == (p2[1] - p1[1]) * (p2[1] - p1[1]) + (p2[2] - p1[2]) * (p2[2] - p1[2])
    IN  CHOOSE n \in 0..(Abs(p2[1] - p1[1]) + Abs(p2[2] - p1[2])) :
            /\ 25 * n * n >= d2
            /\ n > 0 => 25 * (n - 1) * (n - 1) < d2

\* Pen::draw_line over native points: with steps = 0 the division of line 50
\* panics before anything is emitted; otherwise lift, move to p1, press, one
\* move per step, lift.
draw_line(p1, p2) ==
    LET steps == line_steps(p1, p2)
        dx == Trunc(p2[1] - p1[1], steps)
        dy == Trunc(p2[2] - p1[2], steps)
    IN  IF steps = 0 THEN [events |-> <<>>, panics |-> TRUE]
        ELSE [events |-> <<Lift, Goto(p1), Press>>
                         \o [i \in 1..steps |->
                                Goto(<<p1[1] + dx * (i - 1), p1[2] + dy * (i - 1)>>)]
                         \o <<Lift>>,
              panics |-> FALSE]

\* Pen::draw_line_screen
draw_line_screen(model, p1, p2) ==
    draw_line(pen_virtual_to_input(model, p1), pen_virtual_to_input(model, p2))

\* One primitive after another: the second is not started when the first panics.
Then(first, second) ==
    IF first.panics THEN first
    ELSE [events |-> first.events \o second.events, panics |-> second.panics]
Nothing == [events |-> <<>>, panics |-> FALSE]

\* Pen::draw_bitmap: one row, from pixel x (1-based) on, at canonical row y
RECURSIVE bitmap_row(_, _, _, _, _)
bitmap_row(model, row, x, y, is_pen_down) ==
    IF x > Len(row) THEN <<Lift>>
    ELSE IF row[x]
    THEN (IF is_pen_down THEN <<>>
          ELSE <<Goto(pen_virtual_to_input(model, <<x - 1, y>>)), Press>>)
         \o <<Goto(pen_virtual_to_input(model, <<x - 1, y>>)),
              Goto(pen_virtual_to_input(model, <<x, y>>))>>
         \o bitmap_row(model, row, x + 1, y, TRUE)
    ELSE (IF is_pen_down THEN <<Lift>> ELSE <<>>)
         \o bitmap_row(model, row, x + 1, y, FALSE)
RECURSIVE bitmap_rows(_, _, _)
bitmap_rows(model, bitmap, y) ==
    IF y > Len(bitmap) THEN <<>>
    ELSE bitmap_row(model, bitmap[y], 1, y - 1, FALSE) \o bitmap_rows(model, bitmap, y + 1)
draw_bitmap(model, bitmap) == [events |-> bitmap_rows(model, bitmap, 1), panics |-> FALSE]

\* Pen::draw_rectangle: the filling lines, or the four sides
RECURSIVE fill_lines(_, _, _, _, _)
fill_lines(model, x1, x2, y, y2) ==
    IF y > y2 THEN Nothing
    ELSE Then(draw_line_screen(model, <<x1, y>>, <<x2, y>>),
              fill_lines(model, x1, x2, y + 1, y2))
draw_rectangle(model, top_left, bottom_right, fill) ==
    LET x1 == top_left[1]
        y1 == top_left[2]
        x2 == bottom_right[1]
        y2 == bottom_right[2]
    IN  IF fill THEN fill_lines(model, x1, x2, y1, y2)
        ELSE Then(draw_line_screen(model, <<x1, y1>>, <<x2, y1>>),
             Then(draw_line_screen(model, <<x2, y1>>, <<x2, y2>>),
             Then(draw_line_screen(model, <<x2, y2>>, <<x1, y2>>),
                  draw_line_screen(model, <<x1, y2>>, <<x1, y1>>))))

\* `send_events(..)?`: the call that fails, counted in events already emitted
SendFailures(events, device) ==
    IF ~device \/ events = <<>> THEN {NoFail} ELSE {NoFail} \cup 0..(Len(events) - 1)

\* What a primitive emitted and how it ended, when send_events fails (or not)
emitted(run, device, failAfter) ==
    [events |-> IF ~device THEN <<>>
                ELSE IF failAfter = NoFail THEN run.events
                ELSE SubSeq(run.events, 1, failAfter),
     result |-> IF failAfter # NoFail THEN "Err"
                ELSE IF run.panics THEN "panic" ELSE "Ok"]

\* The contact state after a sequence of events
RECURSIVE contact_after(_, _)
contact_after(contact, events) ==
    IF events = <<>> THEN contact
    ELSE contact_after(IF Head(events).e = "down" THEN TRUE
                       ELSE IF Head(events).e = "up" THEN FALSE
                       ELSE contact,
                       Tail(events))

(***************************************************************************)
(* SpecPen: one Pen under a sequence of primitives.                        *)
(***************************************************************************)
LinePoints == {<<0, 0>>, <<0, 12>>, <<6, 8>>}
Bitmaps == {<<>>} \cup [1..2 -> [1..2 -> BOOLEAN]]
RectTopLeft == <<10, 10>>
RectBottomRights == {<<10, 10>>, <<11, 12>>}

PenInit ==
    /\ device_model \in DeviceModels
    /\ pdevice \in BOOLEAN
    /\ pen_contact = FALSE
    /\ plast = NoPrimitive
    /\ pcalls = 0
    /\ trigger_corner = "UpperRight"
    /\ tpos = <<0, 0>> /\ tslot = 0 /\ tcontacts = <<>> /\ tpc = "off" /\ tret = NoContact
    /\ tpolls = 0
    /\ current_index = 0 /\ state_file = NoFile
    /\ SymHistIdle
    /\ OrchIdle
    /\ ExtIdle
    /\ WalkIdle
    /\ KbdIdle
    /\ XformIdle

\* The point of the last move of a sequence of events, `at` when it has none
RECURSIVE position_after(_, _)
position_after(at, events) ==
    IF events = <<>> THEN at
    ELSE position_after(IF Head(events).e = "goto" THEN Head(events).at ELSE at,
                        Tail(events))

\* A primitive ran: `run` is what it emits when no send_events fails; `bitmap`
\* is the grid it was given (draw_bitmap).  `at` is where the pen rests on the
\* panel when the primitive leaves it in contact (<<>> when it is lifted).
PenRan(op, bitmap, run, failAfter) ==
    /\ plast.result # "panic"
    /\ pcalls < MaxPenCalls
    /\ plast' = [op |-> op,
                 bitmap |-> bitmap,
                 events |-> emitted(run, pdevice, failAfter).events,
                 result |-> emitted(run, pdevice, failAfter).result,
                 before |-> [contact |-> pen_contact, at |-> plast.at],
                 at |-> IF contact_after(pen_contact,
                                         emitted(run, pdevice, failAfter).events)
                        THEN position_after(plast.at,
                                            emitted(run, pdevice, failAfter).events)
                        ELSE <<>>]
    /\ pen_contact' = contact_after(pen_contact, emitted(run, pdevice, failAfter).events)
    /\ pcalls' = pcalls + 1
    /\ UNCHANGED <<pdevice, orchVars, symVars, symHist, walkVars, kbdVars, touchVars,
                   xformVars, extVars>>

PenDrawLine ==
    \E p1 \in LinePoints, p2 \in LinePoints :
        \E failAfter \in SendFailures(draw_line(p1, p2).events, pdevice) :
            PenRan("draw_line", <<>>, draw_line(p1, p2), failAfter)

PenDrawBitmap ==
    \E bitmap \in Bitmaps :
        \E failAfter \in SendFailures(draw_bitmap(device_model, bitmap).events, pdevice) :
            PenRan("draw_bitmap", bitmap, draw_bitmap(device_model, bitmap), failAfter)

PenDrawRectangle ==
    \E bottom_right \in RectBottomRights, fill \in BOOLEAN :
        \E failAfter \in SendFailures(
               draw_rectangle(device_model, RectTopLeft, bottom_right, fill).events, pdevice) :
            PenRan("draw_rectangle", <<>>,
                   draw_rectangle(device_model, RectTopLeft, bottom_right, fill), failAfter)

PenNext ==
    \/ PenDrawLine
    \/ PenDrawBitmap
    \/ PenDrawRectangle

SpecPen == PenInit /\ [][PenNext]_vars

(***************************************************************************)
(* SpecLine: Pen::draw_line applied to one pair of native points, every     *)
(* send_events succeeding.                                                  *)
(***************************************************************************)
\* End points that give horizontal, vertical and diagonal lines of lengths
\* below, at and above the step distance
LineXs == {0, 3, 14, 40}
LineYs == {0, 4, 14, 30}
LineEnds == (LineXs \X LineYs) \X (LineXs \X LineYs)

LineInit ==
    /\ lends \in LineEnds
    /\ lrun = NoLine
    /\ ParseIdle
    /\ EraseIdle
    /\ HeaderIdle
    /\ GestIdle
    /\ current_index = 0 /\ state_file = NoFile
    /\ SymHistIdle
    /\ OrchIdle
    /\ WalkIdle
    /\ KbdIdle
    /\ TouchIdle
    /\ XformIdle
    /\ PenIdle

\* Pen::draw_line(p1, p2)
LineDraw ==
    /\ ~lrun.done
    /\ lrun' = [events |-> draw_line(lends[1], lends[2]).events,
                panics |-> draw_line(lends[1], lends[2]).panics,
                done |-> TRUE]
    /\ UNCHANGED <<lends, orchVars, symVars, symHist, walkVars, kbdVars, touchVars,
                   xformVars, penVars, parseVars, eraseVars, headerVars, gestVars>>

LineNext == LineDraw

SpecLine == LineInit /\ [][LineNext]_vars

(***************************************************************************)
(* The reply parser of Orchestrator::analyze_and_answer_single_call         *)
(* (workflow/orchestrator.rs).  A text is a sequence of characters.         *)
(***************************************************************************)
NONE == <<"N", "O", "N", "E">>
SEPARATOR == <<"-", "-", "-">>
QUESTION == <<"Q", "U", "E", "S", "T", "I", "O", "N", ":">>
QUESTION_BOX == <<"Q", "U", "E", "S", "T", "I", "O", "N", "_", "B", "O", "X", ":">>
OUTLINE_BOX == <<"O", "U", "T", "L", "I", "N", "E", "_", "B", "O", "X", ":">>
ANSWER == <<"A", "N", "S", "W", "E", "R", ":">>
PLACEHOLDER ==
    <<"W", "h", "a", "t", " ", "d", "o", "e", "s", " ", "t", "h", "i", "s", " ",
      "m", "e", "a", "n", "?">>

\* str::to_uppercase, on the letters the replies here are made of
LowerCase == <<"n", "o", "e", "q", "u", "s", "t", "i", "x", "y">>
UpperCase == <<"N", "O", "E", "Q", "U", "S", "T", "I", "X", "Y">>
to_uppercase(s) ==
    [i \in 1..Len(s) |->
        IF \E k \in 1..Len(LowerCase) : LowerCase[k] = s[i]
        THEN UpperCase[CHOOSE k \in 1..Len(LowerCase) : LowerCase[k] = s[i]]
        ELSE s[i]]

\* str::starts_with, str::strip_prefix (unwrap_or'd by the caller)
starts_with(s, prefix) ==
    Len(s) >= Len(prefix) /\ SubSeq(s, 1, Len(prefix)) = prefix
strip_prefix(s, prefix) == SubSeq(s, Len(prefix) + 1, Len(s))

\* str::find: the index of the first occurrence of pat, 0 when there is none
find(s, pat) ==
    IF \E i \in 1..(Len(s) - Len(pat) + 1) : SubSeq(s, i, i + Len(pat) - 1) = pat
    THEN CHOOSE i \in 1..(Len(s) - Len(pat) + 1) :
             /\ SubSeq(s, i, i + Len(pat) - 1) = pat
             /\ \A j \in 1..(i - 1) : SubSeq(s, j, j + Len(pat) - 1) # pat
    ELSE 0

\* str::split(pat).collect(): the pieces between the occurrences, left to right
RECURSIVE split(_, _)
split(s, pat) ==
    IF find(s, pat) = 0 THEN <<s>>
    ELSE <<SubSeq(s, 1, find(s, pat) - 1)>>
         \o split(SubSeq(s, find(s, pat) + Len(pat), Len(s)), pat)

\* str::lines(): split at "\n", a final empty line dropped, a trailing "\r" of
\* each line dropped
lines(s) ==
    LET pieces == split(s, <<"\n">>)
        kept == IF pieces[Len(pieces)] = <<>>
                THEN SubSeq(pieces, 1, Len(pieces) - 1) ELSE pieces
    IN  [i \in 1..Len(kept) |->
            IF kept[i] # <<>> /\ kept[i][Len(kept[i])] = "\r"
            THEN SubSeq(kept[i], 1, Len(kept[i]) - 1) ELSE kept[i]]

\* Orchestrator::extract_field: the trimmed rest of the first line that starts
\* with field_name, "" when no line does
extract_field(text, field_name) ==
    IF \E i \in 1..Len(lines(text)) : starts_with(lines(text)[i], field_name)
    THEN trim(strip_prefix(
             lines(text)[CHOOSE i \in 1..Len(lines(text)) :
                 /\ starts_with(lines(text)[i], field_name)
                 /\ \A j \in 1..(i - 1) : ~starts_with(lines(text)[j], field_name)],
             field_name))
    ELSE <<>>

\* str::parse::<i32>: an optional sign, one or more decimal digits, a value
\* that fits 32 bits
I32_MAX == 2147483647
RECURSIVE StripZeros(_)
StripZeros(s) == IF Len(s) > 1 /\ Head(s) = "0" THEN StripZeros(Tail(s)) ELSE s
\* the magnitude of a digit string is at most I32_MAX + extra
Fits(body, extra) ==
    LET d == StripZeros(body)
    IN  \/ Len(d) < 10
        \/ /\ Len(d) = 10
           /\ \/ DecValue(SubSeq(d, 1, 9)) < I32_MAX \div 10
              \/ /\ DecValue(SubSeq(d, 1, 9)) = I32_MAX \div 10
                 /\ DigitVal(d[10]) <= (I32_MAX % 10) + extra
parse_i32(s) ==
    LET signed == s # <<>> /\ Head(s) \in {"+", "-"}
        negative == signed /\ Head(s) = "-"
        body == IF signed THEN Tail(s) ELSE s
        digits == body # <<>> /\ \A i \in 1..Len(body) : body[i] \in DigitSet
    IN  IF digits /\ Fits(body, IF negative THEN 1 ELSE 0)
        THEN [ok |-> TRUE,
              value |-> IF ~negative THEN DecValue(body)
                        ELSE IF Fits(body, 0) THEN -DecValue(body)
                        ELSE -I32_MAX - 1]
        ELSE [ok |-> FALSE, value |-> 0]

\* Option<BoundingBox>
SomeBox(x, y, w, h) == [some |-> TRUE, x |-> x, y |-> y, width |-> w, height |-> h]

\* Orchestrator::parse_bounding_box, "x,y,width,height"
parse_bounding_box(text) ==
    LET parts == split(text, <<",">>)
        n(i) == parse_i32(trim(parts[i]))
    IN  IF Len(parts) = 4 /\ \A i \in 1..4 : n(i).ok
        THEN SomeBox(n(1).value, n(2).value, n(3).value, n(4).value)
        ELSE NoBox

\* Result<Option<AnalysisResult>>; screenshot_data is handed through
NoResult ==
    [kind |-> "None", question |-> <<>>, answer |-> <<>>,
     question_box |-> NoBox, outline_box |-> NoBox]
HasResult(question, answer, question_box, outline_box) ==
    [kind |-> "Some", question |-> question, answer |-> answer,
     question_box |-> question_box, outline_box |-> outline_box]

\* analyze_and_answer_single_call, from `response` on (lines 123-166)
parse_response(text) ==
    IF starts_with(to_uppercase(trim(text)), NONE) THEN NoResult
    ELSE LET parts == split(text, SEPARATOR)
         IN  IF Len(parts) < 2 THEN HasResult(PLACEHOLDER, text, NoBox, NoBox)
             ELSE LET header == parts[1]
                      answer_text ==
                          trim(IF starts_with(trim(parts[2]), ANSWER)
                               THEN strip_prefix(trim(parts[2]), ANSWER)
                               ELSE parts[2])
                  IN  HasResult(extract_field(header, QUESTION),
                                answer_text,
                                parse_bounding_box(extract_field(header, QUESTION_BOX)),
                                parse_bounding_box(extract_field(header, OUTLINE_BOX)))

Min(a, b) == IF a <= b THEN a ELSE b
Max(a, b) == IF a >= b THEN a ELSE b

\* orchestrator.rs 211-214 and 227-232: the clamped_box render_answer hands to
\* erase_region_smart
clamp_question_box(box) ==
    LET clamped_x == Min(Max(box.x, 0), 768 - Max(box.width, 1))
        clamped_y == Min(Max(box.y, 0), 1024 - Max(box.height, 1))
        clamped_width == Min(Max(box.width, 1), 768 - clamped_x)
        clamped_height == Min(Max(box.height, 1), 1024 - clamped_y)
    IN  SomeBox(clamped_x, clamped_y, clamped_width, clamped_height)

(***************************************************************************)
(* SpecParse: the parser applied to one reply of the external collaborator. *)
(***************************************************************************)
\* Replies: a reply is the concatenation of one line of each kind (or none);
\* the sentinel replies come with and without surroundings.
QuestionLines ==
    {<<>>,
     <<"Q", "U", "E", "S", "T", "I", "O", "N", ":", " ", "X", "\n">>,
     <<"q", "u", "e", "s", "t", "i", "o", "n", ":", " ", "X", "\n">>}
QuestionBoxLines ==
    {<<>>,
     QUESTION_BOX \o <<" ", "1", ",", "2", ",", "3", ",", "4", "\n">>,
     QUESTION_BOX \o <<" ", "1", ",", " ", "2", ",", "-", "3", ",", "4", "\n">>,
     QUESTION_BOX \o <<" ", "1", ",", "2", ",", "3", "\n">>,
     QUESTION_BOX \o <<" ", "1", ",", "2", ",", "x", ",", "4", "\n">>,
     QUESTION_BOX \o <<" ", "-", "5", ",", "2", "0", "0", "0", ",", "3", ",", "4", "\n">>,
     QUESTION_BOX \o <<" ", "7", "0", "0", ",", "9", ",", "9", "0", "0", ",", "5", "\n">>,
     QUESTION_BOX \o <<" ", "1", ",", "2", ",", "3", ",",
                       "4", "2", "9", "4", "9", "6", "7", "2", "9", "6", "\n">>}
OutlineBoxLines ==
    {<<>>, OUTLINE_BOX \o <<" ", "5", ",", "6", ",", "7", ",", "8", "\n">>}
SeparatorLines == {<<>>, SEPARATOR \o <<"\n">>}
AnswerSections ==
    {<<"Y">>,
     ANSWER \o <<" ", "Y">>,
     ANSWER \o <<" ", "Y", "\n">> \o SEPARATOR \o <<"\n", "Y">>}
SentinelReplies ==
    {NONE, <<" ">> \o NONE \o <<"\n">>, <<"n", "o", "n", "e">>,
     NONE \o <<".">>, NONE \o <<"X">>}
Replies ==
    SentinelReplies \cup
    {q \o qb \o ob \o sep \o a :
        q \in QuestionLines, qb \in QuestionBoxLines, ob \in OutlineBoxLines,
        sep \in SeparatorLines, a \in AnswerSections}

ParseInit ==
    /\ response \in Replies
    /\ parsed = NotParsed("pending")
    /\ clamped = NoBox
    /\ EraseIdle
    /\ HeaderIdle
    /\ GestIdle
    /\ current_index = 0 /\ state_file = NoFile
    /\ SymHistIdle
    /\ OrchIdle
    /\ WalkIdle
    /\ KbdIdle
    /\ TouchIdle
    /\ XformIdle
    /\ PenIdle
    /\ LineIdle

\* llm.execute() returned `response`: lines 123-166 run on it
ParseResponse ==
    /\ parsed.kind = "pending"
    /\ parsed' = parse_response(response)
    /\ UNCHANGED <<response, clamped, orchVars, symVars, symHist, walkVars, kbdVars, touchVars,
                   xformVars, penVars, lineVars, eraseVars, headerVars, gestVars>>

\* render_answer, lines 209-232: `if let Some(question_box)`, the clamp
ParseClamp ==
    /\ parsed.kind = "Some"
    /\ parsed.question_box.some
    /\ ~clamped.some
    /\ clamped' = clamp_question_box(parsed.question_box)
    /\ UNCHANGED <<response, parsed, orchVars, symVars, symHist, walkVars, kbdVars, touchVars,
                   xformVars, penVars, lineVars, eraseVars, headerVars, gestVars>>

ParseNext == ParseResponse \/ ParseClamp

SpecParse == ParseInit /\ [][ParseNext]_vars

(***************************************************************************)
(* Workflow::erase_region_smart (workflow/mod.rs).  A decoded image is its   *)
(* size and its pixels: the points of `dark` have the luma `luma`, every     *)
(* other one is white (255).                                                 *)
(***************************************************************************)
INK_THRESHOLD == 200
MARGIN == 2

\* gray_img.get_pixel(x, y)[0]
get_pixel(img, x, y) == IF <<x, y>> \in img.dark THEN img.luma ELSE 255

\* the inner loop of the scan: row y has a pixel below the ink threshold in
\* the region's columns (rows and columns off the image are passed over)
has_ink(region, img, y) ==
    /\ y >= 0 /\ y < img.height
    /\ \E x \in region.x..(Min(region.x + region.width, 768) - 1) :
           /\ x >= 0 /\ x < img.width
           /\ get_pixel(img, x, y) < INK_THRESHOLD

\* rows_with_ink, scanned from row y on
RECURSIVE rows_with_ink(_, _, _)
rows_with_ink(region, img, y) ==
    IF y >= Min(region.y + region.height, 1024) THEN <<>>
    ELSE (IF has_ink(region, img, y) THEN <<y>> ELSE <<>>)
         \o rows_with_ink(region, img, y + 1)

\* the rows erased for the ink row y: erase_y_start..erase_y_end
erase_y_start_unclamped(region, y) == Max(y - MARGIN, 0)
erase_y_start(region, y) == Max(Max(y - MARGIN, region.y), 0)
erase_y_end(region, y) == Min(Min(y + MARGIN + 1, region.y + region.height), 1024)

\* self.pen.erase_rectangle(top_left, bottom_right), as called for erase_y
erase_rectangle_call(region, erase_y) ==
    [top_left |-> <<region.x, erase_y>>,
     bottom_right |-> <<Min(region.x + region.width, 768), erase_y + 1>>]
RECURSIVE erase_rows(_, _, _)
erase_rows(region, erase_y, end) ==
    IF erase_y >= end THEN <<>>
    ELSE <<erase_rectangle_call(region, erase_y)>> \o erase_rows(region, erase_y + 1, end)
RECURSIVE erase_ink_rows(_, _)
erase_ink_rows(region, rows) ==
    IF rows = <<>> THEN <<>>
    ELSE erase_rows(region, erase_y_start(region, Head(rows)),
                    erase_y_end(region, Head(rows)))
         \o erase_ink_rows(region, Tail(rows))

\* erase_region_smart: the erase_rectangle calls it makes when none fails
erase_region_smart(region, img) ==
    erase_ink_rows(region, rows_with_ink(region, img, region.y))

(***************************************************************************)
(* SpecErase: erase_region_smart applied to one box and one screenshot.     *)
(***************************************************************************)
EraseBoxes ==
    {[some |-> TRUE, x |-> x, y |-> y, width |-> w, height |-> h] :
        x \in {-1, 3, 766}, y \in {-1, 2, 1020}, w \in {0, 3}, h \in {-1, 0, 1, 7}}
DarkPoints == {<<0, 0>>, <<4, 3>>, <<4, 5>>, <<4, 8>>, <<4, 9>>, <<6, 5>>, <<767, 1022>>}
Lumas == {INK_THRESHOLD - 1, INK_THRESHOLD}
Screenshots ==
    {[width |-> 768, height |-> 1024, dark |-> d, luma |-> l] :
        d \in SUBSET DarkPoints, l \in Lumas}

EraseInit ==
    /\ eregion \in EraseBoxes
    /\ eimg \in Screenshots
    /\ erased = <<>>
    /\ epc = "pending"
    /\ ParseIdle
    /\ HeaderIdle
    /\ GestIdle
    /\ current_index = 0 /\ state_file = NoFile
    /\ SymHistIdle
    /\ OrchIdle
    /\ WalkIdle
    /\ KbdIdle
    /\ TouchIdle
    /\ XformIdle
    /\ PenIdle
    /\ LineIdle

\* image::load_from_memory(screenshot_data)? fails: Err before any stroke
EraseDecodeFails ==
    /\ epc = "pending"
    /\ epc' = "Err"
    /\ UNCHANGED <<eregion, eimg, erased, orchVars, symVars, symHist, walkVars, kbdVars,
                   touchVars, xformVars, penVars, lineVars, parseVars, headerVars, gestVars>>

\* The scan and the strokes; `failAfter` erase_rectangle calls were made when
\* one returns an error (`?`).
EraseRegionSmart(failAfter) ==
    /\ epc = "pending"
    /\ failAfter = NoFail \/ failAfter < Len(erase_region_smart(eregion, eimg))
    /\ erased' = IF failAfter = NoFail THEN erase_region_smart(eregion, eimg)
                 ELSE SubSeq(erase_region_smart(eregion, eimg), 1, failAfter)
    /\ epc' = IF failAfter = NoFail THEN "Ok" ELSE "Err"
    /\ UNCHANGED <<eregion, eimg, orchVars, symVars, symHist, walkVars, kbdVars,
                   touchVars, xformVars, penVars, lineVars, parseVars, headerVars, gestVars>>

EraseNext ==
    \/ EraseDecodeFails
    \/ \E failAfter \in {NoFail} \cup 0..15 : EraseRegionSmart(failAfter)

SpecErase == EraseInit /\ [][EraseNext]_vars

(***************************************************************************)
(* Workflow::check_if_next_page_is_answer_page (workflow/mod.rs), from the   *)
(* decoded screenshot of the next page on.                                   *)
(***************************************************************************)
HEADER_HEIGHT == 100
HEADER_INK_THRESHOLD == 200
MIN_INK_PIXELS == 50

\* the pixels of row y below the ink threshold (only the points of `dark` can
\* be: every other pixel is 255)
ink_in_row(img, y) ==
    Cardinality({p \in img.dark :
        /\ p[2] = y /\ p[1] >= 0 /\ p[1] < img.width
        /\ get_pixel(img, p[1], y) < HEADER_INK_THRESHOLD})

\* `if ink_pixel_count >= MIN_INK_PIXELS`
enough_ink_strictly_more(ink_pixel_count) == ink_pixel_count > MIN_INK_PIXELS
enough_ink(ink_pixel_count) == ink_pixel_count >= MIN_INK_PIXELS

\* the scan of the header rows from row y on, ink_pixel_count counted so far:
\* TRUE as soon as the count is enough, FALSE when the rows are exhausted
RECURSIVE header_has_marker(_, _, _)
header_has_marker(img, y, ink_pixel_count) ==
    IF y >= Min(HEADER_HEIGHT, img.height) THEN FALSE
    ELSE IF enough_ink(ink_pixel_count + ink_in_row(img, y)) THEN TRUE
    ELSE header_has_marker(img, y + 1, ink_pixel_count + ink_in_row(img, y))

(***************************************************************************)
(* SpecHeader: the header scan applied to one screenshot of the next page.  *)
(***************************************************************************)
\* A block of dark pixels: `cols` columns from the left edge, `rows` rows from
\* row `top` on
DarkBlock(cols, top, rows) ==
    {<<x, y>> : x \in 0..(cols - 1), y \in top..(top + rows - 1)}
HeaderScreenshots ==
    {[width |-> 768, height |-> 1024, dark |-> DarkBlock(cols, top, rows), luma |-> l] :
        cols \in {1, 7, 10}, top \in {0, 93, 95, 99, 100}, rows \in {1, 5, 7, 50},
        l \in {HEADER_INK_THRESHOLD - 1, HEADER_INK_THRESHOLD}}

HeaderInit ==
    /\ himg \in HeaderScreenshots
    /\ hret = "pending"
    /\ ParseIdle
    /\ EraseIdle
    /\ GestIdle
    /\ current_index = 0 /\ state_file = NoFile
    /\ SymHistIdle
    /\ OrchIdle
    /\ WalkIdle
    /\ KbdIdle
    /\ TouchIdle
    /\ XformIdle
    /\ PenIdle
    /\ LineIdle

\* Lines 287-315 with navigate_to_previous_page() succeeding: Ok(true) or
\* Ok(false)
HeaderScan ==
    /\ hret = "pending"
    /\ hret' = IF header_has_marker(himg, 0, 0) THEN "true" ELSE "false"
    /\ UNCHANGED <<himg, orchVars, symVars, symHist, walkVars, kbdVars, touchVars,
                   xformVars, penVars, lineVars, parseVars, eraseVars, gestVars>>

\* The same with navigate_to_previous_page()? failing: the error is returned
\* in place of the boolean
HeaderScanBackFails ==
    /\ hret = "pending"
    /\ hret' = "Err"
    /\ UNCHANGED <<himg, orchVars, symVars, symHist, walkVars, kbdVars, touchVars,
                   xformVars, penVars, lineVars, parseVars, eraseVars, gestVars>>

HeaderNext ==
    \/ HeaderScan
    \/ HeaderScanBackFails

SpecHeader == HeaderInit /\ [][HeaderNext]_vars

(***************************************************************************)
(* Touch gestures (device/touch.rs, workflow/xochitl_integration.rs).  A     *)
(* packet is one send_events call: touch_start (slot 0, tracking id 1, the   *)
(* position, pressure and size), goto_xy (slot 0, tracking id 1, the         *)
(* position) or touch_stop (slot 0, tracking id -1).                         *)
(***************************************************************************)
touch_start(model, xy) == [e |-> "start", at |-> virtual_to_input(model, xy)]
touch_goto_xy(model, xy) == [e |-> "goto", at |-> virtual_to_input(model, xy)]
touch_stop == [e |-> "stop", at |-> <<>>]

\* XochitlIntegration::tap_at
tap_at(model, coords) == <<touch_start(model, coords), touch_stop>>

\* swipe_left / swipe_right: start, 15 interpolated positions, stop.  The f32
\* product (end_x - start_x) * (i / 15) truncates to 40 * i for i = 1..15.
SwipeSteps == 15
RECURSIVE swipe_moves(_, _, _, _)
swipe_moves(model, start_x, end_x, i) ==
    IF i > SwipeSteps THEN <<>>
    ELSE <<touch_goto_xy(model,
               <<IF end_x < start_x
                 THEN start_x - Trunc((start_x - end_x) * i, SwipeSteps)
                 ELSE start_x + Trunc((end_x - start_x) * i, SwipeSteps),
                 512>>)>>
         \o swipe_moves(model, start_x, end_x, i + 1)
swipe_left(model) ==
    <<touch_start(model, <<700, 512>>)>> \o swipe_moves(model, 700, 100, 1) \o <<touch_stop>>
swipe_right(model) ==
    <<touch_start(model, <<100, 512>>)>> \o swipe_moves(model, 100, 700, 1) \o <<touch_stop>>

(***************************************************************************)
(* SpecGest: one Touch under a sequence of taps and swipes.                 *)
(***************************************************************************)
\* two of the points create_page_after_current taps
TapPoints == {<<700, 50>>, <<100, 900>>}

GestInit ==
    /\ device_model \in DeviceModels
    /\ tdevice \in BOOLEAN
    /\ tstream = <<>>
    /\ tgest = NoGesture
    /\ tgcalls = 0
    /\ trigger_corner = "UpperRight"
    /\ tpos = <<0, 0>> /\ tslot = 0 /\ tcontacts = <<>> /\ tpc = "off" /\ tret = NoContact
    /\ tpolls = 0
    /\ ParseIdle
    /\ EraseIdle
    /\ HeaderIdle
    /\ current_index = 0 /\ state_file = NoFile
    /\ SymHistIdle
    /\ OrchIdle
    /\ WalkIdle
    /\ KbdIdle
    /\ XformIdle
    /\ PenIdle
    /\ LineIdle

\* A gesture ran: `packets` is what it sends when no send_events fails, and
\* `failAfter` packets were sent when one does (`?`).
GestRan(op, packets, failAfter) ==
    /\ tgcalls < MaxGestures
    /\ failAfter \in SendFailures(packets, tdevice)
    /\ LET sent == emitted([events |-> packets, panics |-> FALSE], tdevice, failAfter)
       IN  /\ tstream' = tstream \o sent.events
           /\ tgest' = [op |-> op, result |-> sent.result,
                        clean |-> tgest.clean /\ sent.result = "Ok"]
    /\ tgcalls' = tgcalls + 1
    /\ UNCHANGED <<tdevice, orchVars, symVars, symHist, walkVars, kbdVars, touchVars,
                   xformVars, penVars, lineVars, parseVars, eraseVars, headerVars>>

GestTap ==
    \E coords \in TapPoints, failAfter \in {NoFail} \cup 0..1 :
        GestRan("tap_at", tap_at(device_model, coords), failAfter)
GestSwipeLeft ==
    \E failAfter \in {NoFail} \cup 0..(SwipeSteps + 1) :
        GestRan("swipe_left", swipe_left(device_model), failAfter)
GestSwipeRight ==
    \E failAfter \in {NoFail} \cup 0..(SwipeSteps + 1) :
        GestRan("swipe_right", swipe_right(device_model), failAfter)

GestNext ==
    \/ GestTap
    \/ GestSwipeLeft
    \/ GestSwipeRight

SpecGest == GestInit /\ [][GestNext]_vars

(***************************************************************************)
(* Spec: Orchestrator::run_loop / run_iteration (workflow/orchestrator.rs) *)
(* over Workflow (workflow/mod.rs).  A position "O<n>" is line n of        *)
(* orchestrator.rs, "W<n>" line n of workflow/mod.rs.  Every device or     *)
(* collaborator call either succeeds or fails (ok \in BOOLEAN).            *)
(***************************************************************************)

\* note.len() of the progress notes
NoteLen ==
    [processing |-> 13, analyzing |-> 12, rendering |-> 12, erasing |-> 19,
     marking |-> 19, checking |-> 27, creating |-> 16, using |-> 22]

\* What is observed of one iteration; reset when run_iteration is entered.
NewIteration ==
    [trig |-> FALSE,          \* Touch::wait_for_trigger has returned Ok
     capTried |-> FALSE,      \* a frame capture was attempted
     capOk |-> FALSE,         \* capture_screenshot_with_data returned Ok
     analysis |-> 0,          \* calls of OpenAI::execute
     result |-> "pending",    \* "NoResult" (None) or "HasResult" (Some)
     hasBox |-> FALSE,        \* result.question_box is Some
     steps |-> {},            \* rendering steps attempted
     pen |-> FALSE,           \* a pen operation was issued
     nav |-> FALSE,           \* a page navigation or page creation was issued
     failed |-> FALSE,        \* some step returned Err
     persistFail |-> FALSE,   \* SymbolPool::save returned Err
     allocErr |-> FALSE,      \* next_symbol returned Err
     glyph |-> "none",        \* the glyph next_symbol returned
     idx0 |-> current_index,  \* symbol index when the iteration began
     file0 |-> state_file,    \* state file when the iteration began
     pbStart |-> 0,           \* page when the probe was entered
     pbRet |-> "none",        \* what the probe returned: "true", "false", "Err"
     pbEnd |-> 0,             \* page when the probe returned
     blind |-> FALSE,         \* the probe could not decode its capture
     helpTyped |-> FALSE,     \* the NoResult help message was typed
     errTyped |-> FALSE,      \* an "Error: ..." message was typed (or tried)
     drawn |-> "none",        \* the glyph handed to draw_symbol
     created |-> 0,           \* runs of the page-creation sequence
     taps |-> <<>>,           \* taps of the page-creation sequence attempted
     dest |-> <<>>,           \* texts typed in full by render_answer, with the page
     noteAt |-> {},           \* pages on which a progress note was typed
     backAt |-> {},           \* pages on which progress_end typed its backspaces
     answerTyped |-> <<>>]    \* the characters of the Q&A text that were pressed

SpecInitFiles == {NoFile, FileWith(<<"9">>), FileWith(<<"1", "3">>)}

Init ==
    /\ mode \in {"loop", "once"}
    /\ pc = "call"
    /\ page = 0
    /\ progress_count = 0
    /\ retval = "none"
    /\ iters = 0
    /\ state_file \in SpecInitFiles
    /\ current_index = NewPoolIndex(state_file)
    /\ it = NewIteration
    /\ book \in {[NoBook EXCEPT !.ink = b, !.ink0 = b] : b \in BOOLEAN}
    /\ SymHistIdle
    /\ WalkIdle
    /\ DevIdle

\* ---- where control goes ----
\* `?` inside run_iteration returns Err to the caller; inside render_answer
\* (and the probe it calls) it returns Err to the `if let Err(e)` of line 70.
IterFail == "ret_err"
RenderFail == "O71"

\* orchestrator.rs 56-68: the match on the analysis result
AfterParse_always_render(result) == "O68"
AfterParse(result) == IF result = "NoResult" THEN "O59" ELSE "O68"

\* orchestrator.rs 47: `capture_screenshot_with_data()?`
AfterCapture_error_ignored(ok) == "O48"
AfterCapture(ok) == IF ok THEN "O48" ELSE IterFail

\* orchestrator.rs 209: `if let Some(question_box) = &result.question_box`
AfterAlloc(hasBox) == IF hasBox THEN "O234" ELSE "O241"

\* orchestrator.rs 260-262: needs_new_page = !probe
AfterProbe_always_create(isAnswerPage) == "O264"
AfterProbe(isAnswerPage) == IF isAnswerPage THEN "O277" ELSE "O264"

Fail(ok) == [it EXCEPT !.failed = @ \/ ~ok]

\* ---- XochitlIntegration / PageManager ----
\* navigate_to_page: swipe_left turns to the next page, swipe_right to the
\* previous one
swipe_always_left(direction) == 1
swipe(direction) == IF direction = "Next" THEN 1 ELSE -1

\* create_page_after_current: the four taps, in order, at canonical points
TapSequence == <<<<700, 50>>, <<650, 400>>, <<384, 450>>, <<100, 900>>>>
\* PageManager::create_page_right: `tap_at(..)?` four times, then the swipe
\* onto the new page.  failAt = 0: nothing fails; 1..4: that tap fails;
\* 5: the swipe fails.
CreateFailures == 0..5
create_page_right(failAt) ==
    [taps |-> SubSeq(TapSequence, 1, IF failAt \in 1..4 THEN failAt ELSE 4),
     ok |-> failAt = 0,
     moved |-> IF failAt = 0 THEN swipe("Next") ELSE 0]

\* orchestrator.rs 289-292: format!("{} Q: {}\n\nA: {}\n\n---\n\n", symbol,
\* question, answer), for a question "q" and an answer "a"
formatted_output(symbol) ==
    <<symbol, " ", "Q", ":", " ", "q", "\n", "\n", "A", ":", " ", "a", "\n", "\n",
      "-", "-", "-", "\n", "\n">>


\* ---- the notebook ----
\* book.ink: a capture of the page after the source page has at least
\* MIN_INK_PIXELS dark pixels in its top HEADER_HEIGHT rows, which is all the
\* probe reads of it (mod.rs 291-312); book.ink0 is its value when the run
\* began.  book.created counts the page-creation tap sequences emitted in
\* full; book.good counts the HasResult iterations that returned Ok with no
\* failed step, book.other tells that some iteration ended otherwise and
\* book.blind that some probe could not decode its capture.
\* Text typed on that page shows in its header rows (the marker of line 274
\* relies on it); typed in part, it may or may not reach the pixel count.
TypedOn(b, pg, visible, ok) ==
    IF pg = 1 /\ visible
    THEN IF ok THEN {[b EXCEPT !.ink = TRUE]} ELSE {b, [b EXCEPT !.ink = TRUE]}
    ELSE {b}
\* Backspaces typed on that page delete typed text; ink that is not typed text
\* stays.
RetractedOn(b, pg, count) ==
    IF pg = 1 /\ count > 0 THEN {b, [b EXCEPT !.ink = FALSE]} ELSE {b}
\* The four taps of create_page_after_current insert an empty page after the
\* page shown.
PageCreated(b, pg, failAt) ==
    IF failAt \in {0, 5}
    THEN [b EXCEPT !.created = @ + 1, !.ink = IF pg = 0 THEN FALSE ELSE @]
    ELSE b
\* A trigger on another page than the last source page: what follows it is
\* not known.
TriggeredOn(b, pg) == IF pg = 0 THEN {b} ELSE {[b EXCEPT !.ink = i] : i \in BOOLEAN}
\* run_iteration has returned
IterationEnded(b, ok, iteration) ==
    IF ok /\ iteration.result = "HasResult" /\ ~iteration.failed
    THEN [b EXCEPT !.good = @ + 1, !.blind = @ \/ iteration.blind]
    ELSE [b EXCEPT !.other = TRUE, !.blind = @ \/ iteration.blind]
\* What the header scan finds on a decodable capture of that page
scan_finding(b) == IF b.ink THEN "marker" ELSE "no_marker"

\* Workflow::show_progress(note)? at `here`
ShowProgress(here, next, onFail, len) ==
    \E ok \in BOOLEAN :
        /\ pc = here
        /\ pc' = IF ok THEN next ELSE onFail
        /\ progress_count' = progress(len, ok)
        /\ it' = [Fail(ok) EXCEPT !.noteAt = IF ok THEN @ \cup {page} ELSE @]
        /\ UNCHANGED <<book, mode, page, retval, iters, symVars, symHist, walkVars, devVars>>

\* Workflow::clear_progress()? at `here`
ClearProgress(here, next, onFail) ==
    \E ok \in BOOLEAN :
        /\ pc = here
        /\ pc' = IF ok THEN next ELSE onFail
        /\ progress_count' = progress_end(ok)
        /\ it' = [Fail(ok) EXCEPT
                    !.backAt = IF ok /\ progress_count > 0 THEN @ \cup {page} ELSE @]
        /\ book' \in RetractedOn(book, page, progress_count)
        /\ UNCHANGED <<mode, page, retval, iters, symVars, symHist, walkVars, devVars>>

\* Workflow::render_text(text)? or Keyboard::key_cmd_body()? at `here`;
\* `mark` is what the iteration is observed to have typed.
TypeText(here, next, onFail, mark) ==
    \E ok \in BOOLEAN :
        /\ pc = here
        /\ pc' = IF ok THEN next ELSE onFail
        /\ it' = [Fail(ok) EXCEPT
                    !.helpTyped = @ \/ (mark = "help"),
                    !.errTyped = @ \/ (mark = "error"),
                    !.steps = IF mark \in {"header", "answer"} THEN @ \cup {mark} ELSE @,
                    !.dest = IF ok /\ mark \in {"header", "answer"}
                             THEN Append(@, <<mark, page>>) ELSE @]
        /\ book' \in TypedOn(book, page, mark # "cmd", ok)
        /\ UNCHANGED <<mode, page, progress_count, retval, iters, symVars, symHist, walkVars, devVars>>

\* Workflow::navigate_to_next_page()? / navigate_to_previous_page()? at `here`:
\* one swipe; the page turns when the whole gesture was emitted.
Navigate(here, next, onFail, direction) ==
    \E ok \in BOOLEAN :
        /\ pc = here
        /\ pc' = IF ok THEN next ELSE onFail
        /\ page' = IF ok THEN page + swipe(direction) ELSE page
        /\ it' = [Fail(ok) EXCEPT !.nav = TRUE]
        /\ UNCHANGED <<book, mode, progress_count, retval, iters, symVars, symHist, walkVars, devVars>>

\* ---- run_loop / main ----
\* orchestrator.rs 318 (run_loop) and main.rs 97 (--once): call run_iteration
CallRunIteration ==
    /\ pc = "call"
    /\ iters < MaxIterations
    /\ mode = "loop" \/ iters = 0
    /\ pc' = "O43"
    /\ iters' = iters + 1
    /\ it' = NewIteration
    /\ retval' = "none"
    /\ UNCHANGED <<book, mode, page, progress_count, symVars, symHist, walkVars, devVars>>

\* run_iteration has returned: run_loop matches on it (319-324), main exits
Returned ==
    /\ pc \in {"ret_ok", "ret_err"}
    /\ retval' = IF pc = "ret_ok" THEN "Ok" ELSE "Err"
    /\ pc' = IF mode = "once" THEN "exit"
             ELSE IF pc = "ret_ok" THEN "call" ELSE "O323"
    /\ book' = IterationEnded(book, pc = "ret_ok", it)
    /\ UNCHANGED <<mode, page, progress_count, it, iters, symVars, symHist, walkVars, devVars>>

\* orchestrator.rs 323: `let _ = render_text("Error: ...")`, the result dropped
O323_report_error == TypeText("O323", "call", "call", "error")

\* ---- run_iteration ----
\* orchestrator.rs 43 -> mod.rs 34-40: touch.wait_for_trigger()?, tap_middle_bottom()?
O43_wait_for_trigger ==
    \E outcome \in {"ok", "read_fail", "tap_fail"} :
        /\ pc = "O43"
        /\ pc' = IF outcome = "ok" THEN "O44" ELSE IterFail
        /\ page' = IF outcome = "read_fail" THEN page ELSE 0
        /\ it' = [Fail(outcome = "ok") EXCEPT !.trig = (outcome # "read_fail")]
        /\ book' \in IF outcome = "read_fail" THEN {book} ELSE TriggeredOn(book, page)
        /\ UNCHANGED <<mode, progress_count, retval, iters, symVars, symHist, walkVars, devVars>>

O44_show_progress == ShowProgress("O44", "O47", IterFail, NoteLen.processing)

\* orchestrator.rs 47 -> mod.rs 49-67 capture_screenshot_with_data
O47_capture ==
    \E ok \in BOOLEAN :
        /\ pc = "O47"
        /\ pc' = AfterCapture(ok)
        /\ it' = [Fail(ok) EXCEPT !.capTried = TRUE, !.capOk = ok]
        /\ UNCHANGED <<book, mode, page, progress_count, retval, iters, symVars, symHist, walkVars, devVars>>

O48_show_progress == ShowProgress("O48", "O54", IterFail, NoteLen.analyzing)

\* orchestrator.rs 54 -> 90-166 -> openai.rs 61-98.  execute() returns Err (the
\* request fails, or the reply has no content string), panics (the two unwrap()
\* of openai.rs 87-88: the body cannot be read or is not JSON), or returns the
\* reply, which the parser maps to None or Some(result).
AnalysisOutcomes == {"err", "panic", "NoResult", "HasResult"}
O54_analyze ==
    \E outcome \in AnalysisOutcomes, box \in BOOLEAN :
        /\ pc = "O54"
        /\ box => outcome = "HasResult"
        /\ pc' = CASE outcome = "err" -> IterFail
                   [] outcome = "panic" -> "panic"
                   [] OTHER -> AfterParse(outcome)
        /\ it' = [Fail(outcome \notin {"err", "panic"}) EXCEPT
                    !.analysis = @ + 1,
                    !.result = IF outcome \in {"NoResult", "HasResult"} THEN outcome ELSE @,
                    !.hasBox = box]
        /\ UNCHANGED <<book, mode, page, progress_count, retval, iters, symVars, symHist, walkVars, devVars>>

O59_clear_progress == ClearProgress("O59", "O60", IterFail)
O60_render_help == TypeText("O60", "ret_ok", IterFail, "help")

O68_show_progress == ShowProgress("O68", "O204", IterFail, NoteLen.rendering)

\* orchestrator.rs 71-74: render_answer returned Err
O71_render_failed == ClearProgress("O71", "O73", IterFail)
O73_render_error == TypeText("O73", "O78", IterFail, "error")

O78_clear_progress == ClearProgress("O78", "ret_ok", IterFail)


\* ---- render_answer (orchestrator.rs 200-301) ----
\* orchestrator.rs 204: `self.symbol_pool.next_symbol()?`
O204_next_symbol ==
    \E outcome \in WriteOutcomes :
        /\ pc = "O204"
        /\ current_index' = next_index(current_index)
        /\ state_file' = save(current_index', state_file, outcome)
        /\ pc' = IF next_symbol_result(current_index, outcome) = Err
                 THEN RenderFail
                 ELSE AfterAlloc(it.hasBox)
        /\ it' = [Fail(outcome = "ok") EXCEPT
                    !.steps = @ \cup {"alloc"},
                    !.persistFail = (outcome # "ok"),
                    !.allocErr = (next_symbol_result(current_index, outcome) = Err),
                    !.glyph = IF next_symbol_result(current_index, outcome) = Err
                              THEN @
                              ELSE next_symbol_result(current_index, outcome)]
        /\ UNCHANGED <<book, mode, page, progress_count, retval, iters, symHist, walkVars, devVars>>

O234_show_progress == ShowProgress("O234", "O235", RenderFail, NoteLen.erasing)

\* orchestrator.rs 235 -> mod.rs 98-185 erase_region_smart (decode, pen erase)
O235_erase ==
    \E ok \in BOOLEAN :
        /\ pc = "O235"
        /\ pc' = IF ok THEN "O241" ELSE RenderFail
        /\ it' = [Fail(ok) EXCEPT !.steps = @ \cup {"erase"}, !.pen = TRUE]
        /\ UNCHANGED <<book, mode, page, progress_count, retval, iters, symVars, symHist, walkVars, devVars>>

O241_show_progress == ShowProgress("O241", "O253", RenderFail, NoteLen.marking)

\* orchestrator.rs 253 -> 304-311 -> mod.rs 188-217 draw_symbol (pen bitmap)
O253_draw_symbol ==
    \E ok \in BOOLEAN :
        /\ pc = "O253"
        /\ pc' = IF ok THEN "O259" ELSE RenderFail
        /\ it' = [Fail(ok) EXCEPT !.steps = @ \cup {"draw"}, !.pen = TRUE,
                                  !.drawn = it.glyph]
        /\ UNCHANGED <<book, mode, page, progress_count, retval, iters, symVars, symHist, walkVars, devVars>>

O259_show_progress == ShowProgress("O259", "W269", RenderFail, NoteLen.checking)

\* ---- Workflow::check_if_next_page_is_answer_page (mod.rs 263-316) ----
\* mod.rs 269: `self.navigate_to_next_page()?`
W269_probe_forward ==
    \E ok \in BOOLEAN :
        /\ pc = "W269"
        /\ pc' = IF ok THEN "W273" ELSE RenderFail
        /\ page' = IF ok THEN page + swipe("Next") ELSE page
        /\ it' = [Fail(ok) EXCEPT
                    !.steps = @ \cup {"probe"},
                    !.nav = TRUE,
                    !.pbStart = page,
                    !.pbRet = IF ok THEN "none" ELSE "Err",
                    !.pbEnd = page]
        /\ UNCHANGED <<book, mode, progress_count, retval, iters, symVars, symHist, walkVars, devVars>>

\* mod.rs 273: `self.screenshot.take_screenshot()?`
W273_probe_capture ==
    \E ok \in BOOLEAN :
        /\ pc = "W273"
        /\ pc' = IF ok THEN "W277" ELSE RenderFail
        /\ it' = [Fail(ok) EXCEPT
                    !.capTried = TRUE,
                    !.pbRet = IF ok THEN "none" ELSE "Err",
                    !.pbEnd = page]
        /\ UNCHANGED <<book, mode, page, progress_count, retval, iters, symVars, symHist, walkVars, devVars>>

\* mod.rs 277-312: decode the frame and count the header's ink pixels
ProbeFindings == {"undecodable", "marker", "no_marker"}
BackSite(finding) ==
    CASE finding = "undecodable" -> "W282"
      [] finding = "marker" -> "W305"
      [] finding = "no_marker" -> "W314"
W277_probe_inspect ==
    \E finding \in ProbeFindings :
        /\ pc = "W277"
        /\ finding \in {"undecodable", scan_finding(book)}
        /\ pc' = BackSite(finding)
        /\ it' = [it EXCEPT !.blind = (finding = "undecodable")]
        /\ UNCHANGED <<book, mode, page, progress_count, retval, iters, symVars, symHist, walkVars, devVars>>

\* mod.rs 282, 305, 314: `self.navigate_to_previous_page()?`, then the result
W_probe_back ==
    \E ok \in BOOLEAN :
        /\ pc \in {"W282", "W305", "W314"}
        /\ pc' = IF ok THEN AfterProbe(pc = "W305") ELSE RenderFail
        /\ page' = IF ok THEN page + swipe("Previous") ELSE page
        /\ it' = [Fail(ok) EXCEPT
                    !.pbRet = IF ~ok THEN "Err" ELSE IF pc = "W305" THEN "true" ELSE "false",
                    !.pbEnd = page']
        /\ UNCHANGED <<book, mode, progress_count, retval, iters, symVars, symHist, walkVars, devVars>>

\* ---- render_answer, continued ----
O264_show_progress == ShowProgress("O264", "O265", RenderFail, NoteLen.creating)

\* orchestrator.rs 265 -> mod.rs 244 -> page_manager.rs 15-32: the menu taps,
\* then a swipe onto the new page
O265_create_page ==
    \E failAt \in CreateFailures :
        /\ pc = "O265"
        /\ pc' = IF create_page_right(failAt).ok THEN "O271" ELSE RenderFail
        /\ page' = page + create_page_right(failAt).moved
        /\ it' = [Fail(create_page_right(failAt).ok) EXCEPT
                    !.steps = @ \cup {"create"},
                    !.nav = TRUE,
                    !.created = @ + 1,
                    !.taps = create_page_right(failAt).taps]
        /\ book' = PageCreated(book, page, failAt)
        /\ UNCHANGED <<mode, progress_count, retval, iters, symVars, symHist, walkVars, devVars>>

O271_clear_progress == ClearProgress("O271", "O272", RenderFail)
O272_key_cmd_body == TypeText("O272", "O274", RenderFail, "cmd")
O274_render_header == TypeText("O274", "O283", RenderFail, "header")

O277_show_progress == ShowProgress("O277", "O278", RenderFail, NoteLen.using)
O278_next_page == Navigate("O278", "O283", RenderFail, "Next")

O283_clear_progress == ClearProgress("O283", "O286", RenderFail)
O286_key_cmd_body == TypeText("O286", "O294", RenderFail, "cmd")
\* orchestrator.rs 294 -> mod.rs 220-226 render_text(&formatted_output):
\* key_cmd_body, the text, then "\n\n"
O294_render_answer ==
    \E cmdOk \in BOOLEAN, failAfter \in EmitFailures(formatted_output(it.glyph), kdevice),
       tailOk \in BOOLEAN :
        LET typed == string_to_keypresses(formatted_output(it.glyph), kdevice, failAfter)
            ok == cmdOk /\ typed.ok /\ tailOk
        IN  /\ pc = "O294"
            /\ ~cmdOk => failAfter = 0
            /\ ~typed.ok => tailOk
            /\ pc' = IF ok THEN "O297" ELSE RenderFail
            /\ it' = [Fail(ok) EXCEPT
                        !.steps = @ \cup {"answer"},
                        !.dest = IF ok THEN Append(@, <<"answer", page>>) ELSE @,
                        !.answerTyped = IF cmdOk THEN typed.chars ELSE <<>>]
            /\ book' \in TypedOn(book, page, TRUE, ok)
            /\ UNCHANGED <<mode, page, progress_count, retval, iters, symVars, symHist,
                           walkVars, devVars>>
O297_previous_page == Navigate("O297", "O78", RenderFail, "Previous")

Next ==
    \/ CallRunIteration
    \/ Returned
    \/ O323_report_error
    \/ O43_wait_for_trigger
    \/ O44_show_progress
    \/ O47_capture
    \/ O48_show_progress
    \/ O54_analyze
    \/ O59_clear_progress
    \/ O60_render_help
    \/ O68_show_progress
    \/ O71_render_failed
    \/ O73_render_error
    \/ O78_clear_progress
    \/ O204_next_symbol
    \/ O234_show_progress
    \/ O235_erase
    \/ O241_show_progress
    \/ O253_draw_symbol
    \/ O259_show_progress
    \/ W269_probe_forward
    \/ W273_probe_capture
    \/ W277_probe_inspect
    \/ W_probe_back
    \/ O264_show_progress
    \/ O265_create_page
    \/ O271_clear_progress
    \/ O272_key_cmd_body
    \/ O274_render_header
    \/ O277_show_progress
    \/ O278_next_page
    \/ O283_clear_progress
    \/ O286_key_cmd_body
    \/ O294_render_answer
    \/ O297_previous_page

Spec == Init /\ [][Next]_vars


(***************************************************************************)
(* Properties                                                              *)
(***************************************************************************)
Range(s) == {s[i] : i \in 1..Len(s)}
Last(s) == s[Len(s)]
IndexOf(g) == CHOOSE i \in 0..(N - 1) : symbols[i + 1] = g

\* C1: the answer-page probe leaves the page position unchanged on every
\* return path: whenever check_if_next_page_is_answer_page has returned (true,
\* false or Err), the current page is the page it was entered on.
C1_ProbeNetZero == it.pbRet # "none" => it.pbEnd = it.pbStart

\* A failed iteration of run_loop has typed (or tried to type) an error
\* message by the time run_loop calls run_iteration again.
ErrorReportedAtBoundary ==
    (mode = "loop" /\ pc = "call" /\ iters > 0 /\ it.failed) => it.errTyped

\* C2: inside run_loop a failing step never terminates the process: the
\* process neither panics nor exits, and a failed iteration has typed an error
\* message by the time the loop waits for the next trigger.
C2_LoopSurvivesFailure ==
    mode = "loop" => (pc \notin {"panic", "exit"} /\ ErrorReportedAtBoundary)

\* C3: in single-shot mode run_iteration returns Err, never Ok, for an
\* iteration in which a step failed.
C3_SingleShotPropagates ==
    (mode = "once" /\ pc = "exit" /\ it.failed) => retval = "Err"

\* C4: the buffer-chain walk terminates for every memory content: a round of
\* the loop that leaves the loop running has changed the loop's state (a round
\* that reproduces its state repeats forever), and a record of length < 2 ends
\* the walk with the CorruptLayout error.
C4_WalkTerminates ==
    /\ [][(wpc = "loop" /\ wpc' = "loop") => <<offset', length'>> # <<offset, length>>]_vars
    /\ [](length < 2 => wpc = "corrupt")

\* When next_symbol has just returned a glyph, the state file holds the
\* successor of that glyph's index.
PersistedAtReturn ==
    (calls # <<>> /\ Last(calls) # Err) =>
        /\ state_file.exists
        /\ ParseOk(state_file.content)
        /\ parse_usize(state_file.content) = next_index(IndexOf(Last(calls)))

\* C5: a glyph is returned only after the successor index is on disk, and so,
\* over any crashes and restarts, a glyph handed out is not handed out again
\* before the other N-1 glyphs were: any N consecutive hand-outs are distinct.
C5_DurableCycle ==
    /\ PersistedAtReturn
    /\ \A i, j \in 1..Len(handed) : i # j => handed[i] # handed[j]

\* C6: a failed state-file write does not fail the allocation: next_symbol
\* still yields a glyph and render_answer goes on.
C6_PersistenceFailureProceeds ==
    it.persistFail => (~it.allocErr /\ it.glyph # "none")

\* C7: the symbol index is within 0..N-1 in every reachable state, whatever
\* the state file held at construction and after any number of next_symbol
\* calls and restarts.
C7_IndexInRange == current_index \in 0..(N - 1)

\* C7 witness: a file holding a number >= N was loaded and next_symbol called.
C7_Witness ==
    /\ calls # <<>>
    /\ state_file.exists /\ state_file.readable
    /\ ParseOk(trim(state_file.content))
    /\ parse_usize(trim(state_file.content)) >= N

\* C8: the glyphs returned by next_symbol are periodic with period N: call
\* N+j returns the glyph of call j, and every N consecutive calls return every
\* glyph exactly once.
C8_Periodic ==
    /\ Len(calls) = N + 1 => (Last(calls) # Err /\ Last(calls) = calls[1])
    /\ \A k \in 0..1 :
          Len(calls) >= N + k => {calls[i] : i \in (1 + k)..(N + k)} = Range(symbols)

\* The same, for a process none of whose state-file writes has failed.
PeriodicWhenPersisted == nfail = 0 => C8_Periodic

\* The states of the iteration (spec 4.8) by position.
Phase(p) ==
    CASE p = "O43" -> "WaitingForTrigger"
      [] p \in {"O44", "O47"} -> "Capturing"
      [] p \in {"O48", "O54"} -> "Analyzing"
      [] p \in {"O59", "O60"} -> "NoResult"
      [] p = "O68" -> "HasResult"
      [] p \in {"call", "O78", "ret_ok", "ret_err", "O323"} -> "Idle"
      [] p \in {"exit", "panic"} -> "Stopped"
      [] OTHER -> "Rendering"
PhaseEdges ==
    {<<"Idle", "WaitingForTrigger">>, <<"WaitingForTrigger", "Capturing">>,
     <<"Capturing", "Analyzing">>, <<"Analyzing", "NoResult">>,
     <<"Analyzing", "HasResult">>, <<"HasResult", "Rendering">>,
     <<"Rendering", "Idle">>, <<"NoResult", "Idle">>,
     \* a failed step ends the iteration
     <<"WaitingForTrigger", "Idle">>, <<"Capturing", "Idle">>,
     <<"Analyzing", "Idle">>, <<"HasResult", "Idle">>,
     <<"Analyzing", "Stopped">>, <<"Idle", "Stopped">>}
OrderedSoFar ==
    /\ it.capTried => it.trig
    /\ it.analysis > 0 => it.capOk
    /\ it.analysis <= 1
    /\ it.result # "pending" => it.analysis = 1
    /\ (it.steps # {} \/ it.pen \/ it.nav) => it.result = "HasResult"

\* C9: every iteration follows WaitingForTrigger, Capturing, Analyzing, then
\* NoResult or HasResult, Rendering, Idle: a capture is attempted only after
\* the trigger wait returned, the analysis is called only after a capture
\* succeeded, rendering steps occur only after the analysis returned a result,
\* and a trigger leads to at most one analysis call.
C9_IterationOrder ==
    /\ []OrderedSoFar
    /\ [][Phase(pc') = Phase(pc) \/ <<Phase(pc), Phase(pc')>> \in PhaseEdges]_vars

\* C9 witness: a HasResult iteration that created the page, typed the answer
\* and returned Ok.
C9_Witness ==
    /\ pc = "ret_ok" /\ it.result = "HasResult" /\ ~it.failed
    /\ {"alloc", "erase", "draw", "probe", "create", "answer"} \subseteq it.steps

\* C10: on NoResult the iteration only types the help message: the symbol
\* index is unchanged in memory and on disk, no glyph is allocated, no pen
\* event is emitted and no page navigation or page creation is issued.
C10_NoResultFrame ==
    it.result = "NoResult" =>
        /\ current_index = it.idx0 /\ state_file = it.file0 /\ it.glyph = "none"
        /\ ~it.pen /\ ~it.nav /\ it.steps = {}
        /\ pc = "ret_ok" => it.helpTyped

\* C10 witness: a NoResult iteration has typed the help message and returned.
C10_Witness == it.result = "NoResult" /\ pc = "ret_ok" /\ it.helpTyped

\* ---- Keyboard ----
\* The number of characters of text[1..i] that key_map holds.
Rank(text, i) == Cardinality({j \in 1..i : InKeyMap(text[j])})

C16_SkipsUnsupported ==
    (klast.op = "type" /\ kdevice) =>
        /\ ~klast.typed.ok => klast.fail # NoFail
        /\ klast.typed.ok =>
            /\ Len(klast.typed.chars) = Rank(klast.text, Len(klast.text))
            /\ Len(klast.typed.keys) = Len(klast.typed.chars)
            /\ \A i \in 1..Len(klast.text) :
                  InKeyMap(klast.text[i]) =>
                      /\ klast.typed.chars[Rank(klast.text, i)] = klast.text[i]
                      /\ klast.typed.keys[Rank(klast.text, i)] = key_map(klast.text[i])

\* C16 witness: a text with a supported character after an unsupported one
\* was typed and the call returned Ok.
C16_Witness ==
    /\ klast.op = "type" /\ kdevice /\ klast.typed.ok
    /\ klast.text = <<"u00E9", "A">>
    /\ klast.typed.keys = <<[key |-> "KEY_A", shift |-> TRUE]>>

\* ---- render_answer: destination page ----
AnswerTyped == \E i \in 1..Len(it.dest) : it.dest[i][1] = "answer"

\* C11: within a HasResult iteration the page-creation sequence runs if and
\* only if the probe reported no answer marker: it never runs unless the probe
\* returned false; once the answer is typed, either the probe returned true, no
\* page was created and the answer alone was typed on the next page, or the
\* probe returned false, exactly one page was created and the header, then the
\* answer, were typed on it.
C11_CreateIffNoMarker ==
    /\ it.created > 0 => it.pbRet = "false"
    /\ AnswerTyped =>
        \/ /\ it.pbRet = "true"
           /\ it.created = 0
           /\ it.dest = <<<<"answer", it.pbStart + 1>>>>
        \/ /\ it.pbRet = "false"
           /\ it.created = 1
           /\ it.dest = <<<<"header", it.pbStart + 1>>, <<"answer", it.pbStart + 1>>>>

\* C11 witness: the probe found no marker, one page was created, header and
\* answer were typed and the iteration returned.
C11_Witness ==
    /\ pc = "ret_ok" /\ it.pbRet = "false" /\ it.created = 1 /\ AnswerTyped

\* C12: after a HasResult iteration in which every step succeeded the current
\* page is the source page (page 0, where the trigger occurred), on the path
\* that reuses an answer page and on the path that creates one.
C12_BackOnSourcePage ==
    (pc = "ret_ok" /\ it.result = "HasResult" /\ ~it.failed) => page = 0

\* C12 witness: a fully successful iteration that reused the answer page.
C12_Witness ==
    /\ pc = "ret_ok" /\ it.result = "HasResult" /\ ~it.failed
    /\ it.pbRet = "true" /\ AnswerTyped /\ it.created = 0

\* Both paths leave the answer on the page after the source page.
AnswerOnNextPage ==
    \A i \in 1..Len(it.dest) : it.dest[i][2] = 1

DrawnIsAllocated == "draw" \in it.steps => (it.drawn = it.glyph /\ it.glyph # "none")

OwnPositionInZone(contact) ==
    /\ contact.x # <<>> /\ contact.y # <<>>
    /\ release_hits(device_model, trigger_corner, <<contact.x[1], contact.y[1]>>)

\* C17: wait_for_trigger returns only on an in-zone release of the released
\* contact itself: when it has returned, the contact whose release made it
\* return had been reported, during this wait, at a position of its own, and
\* that position is in the configured corner zone.
C17_OwnReleaseInZone == tpc = "returned" => OwnPositionInZone(tret)

\* The square of CORNER_SIZE pixels per side at the corner.
InCornerSquare(corner, x, y) ==
    /\ IF corner \in {"UpperLeft", "LowerLeft"}
       THEN x \in 0..(CORNER_SIZE - 1)
       ELSE x \in (VIRTUAL_WIDTH - CORNER_SIZE)..(VIRTUAL_WIDTH - 1)
    /\ IF corner \in {"UpperLeft", "UpperRight"}
       THEN y \in 0..(CORNER_SIZE - 1)
       ELSE y \in (VIRTUAL_HEIGHT - CORNER_SIZE)..(VIRTUAL_HEIGHT - 1)

\* C18: for each of the four corners the trigger zone is the square of
\* CORNER_SIZE = 68 canonical pixels per side at that corner (so the zones are
\* mirror images of one another, boundary pixels included), and the workspace
\* center (384, 512) is in no zone.
C18_ZonesAreMirroredSquares ==
    gpc = "zone" =>
        /\ gzone[2] = InCornerSquare(gzone[1], gpoint[1], gpoint[2])
        /\ gpoint = <<VIRTUAL_WIDTH \div 2, VIRTUAL_HEIGHT \div 2>> => ~gzone[2]

\* The center is in no zone, and no point outside a corner's square is in its zone.
ZoneInsideSquare ==
    gpc = "zone" =>
        /\ gzone[2] => InCornerSquare(gzone[1], gpoint[1], gpoint[2])
        /\ gpoint = <<VIRTUAL_WIDTH \div 2, VIRTUAL_HEIGHT \div 2>> => ~gzone[2]

\* C20: for every device variant and every canonical point p of the workspace,
\* input_to_virtual(virtual_to_input(p)) is within one unit of p in each
\* coordinate.
C20_RoundTrip ==
    gpc = "back" =>
        /\ gback[1] - gpoint[1] \in -1..1
        /\ gback[2] - gpoint[2] \in -1..1

\* C20 witness: a round trip on the flipped axis that lost a unit.
C20_Witness ==
    /\ gpc = "back" /\ device_model = "Remarkable2"
    /\ gback # gpoint /\ gpoint[2] > 0

\* ---- Pen ----
\* C19: every pen primitive ends lifted: when draw_line, draw_bitmap or
\* draw_rectangle has returned, the last contact change emitted is a lift, so
\* the pen is not left in contact with the surface.
C19_EndsLifted ==
    (plast.op # "none" /\ plast.result # "panic") => ~pen_contact

\* A primitive that returned Ok and emitted anything ended with a lift.
LiftedOnOk ==
    (plast.op # "none" /\ plast.result = "Ok" /\ plast.events # <<>>)
        => (plast.events[Len(plast.events)] = Lift /\ ~pen_contact)

\* The replies of the full grammar, built from their parts: a question, the
\* boxes that are present, and an answer.
BoxLine(name, box) ==
    IF box.some
    THEN name \o <<" ">> \o to_string(box.x) \o <<",">> \o to_string(box.y) \o <<",">>
              \o to_string(box.width) \o <<",">> \o to_string(box.height) \o <<"\n">>
    ELSE <<>>
FullReply(q, qb, ob, a) ==
    QUESTION \o <<" ">> \o q \o <<"\n">> \o BoxLine(QUESTION_BOX, qb)
        \o BoxLine(OUTLINE_BOX, ob) \o SEPARATOR \o <<"\n">> \o ANSWER \o <<" ">> \o a
GrammarQuestions == {<<"X">>}
GrammarQuestionBoxes == {NoBox, SomeBox(1, 2, 3, 4)}
GrammarOutlineBoxes == {NoBox, SomeBox(5, 6, 7, 8)}
PlainAnswers == {<<"Y">>}
GrammarAnswers == PlainAnswers \cup {<<"Y", "\n">> \o SEPARATOR \o <<"\n", "Y">>}
IsFullGrammar(text) ==
    \E q \in GrammarQuestions, qb \in GrammarQuestionBoxes,
       ob \in GrammarOutlineBoxes, a \in GrammarAnswers : text = FullReply(q, qb, ob, a)
IsSentinel(text) == trim(text) = NONE
Parsed == parsed.kind \in {"None", "Some"}

\* C21: the parser yields NoResult if and only if the reply, ignoring
\* surrounding whitespace, is the literal sentinel NONE.
C21_NoResultIffSentinel ==
    Parsed => (parsed.kind = "None" <=> IsSentinel(response))

\* The sentinel itself, with or without surrounding whitespace, yields NoResult.
SentinelYieldsNoResult ==
    (Parsed /\ IsSentinel(response)) => parsed.kind = "None"

\* C22: for every reply of the full grammar the parser returns the question
\* text, each present box as the four integers of its line (no box for an
\* absent line), and the answer text after 'ANSWER:'.
C22_FullGrammarParsed ==
    \A q \in GrammarQuestions, qb \in GrammarQuestionBoxes,
       ob \in GrammarOutlineBoxes, a \in GrammarAnswers :
        (Parsed /\ response = FullReply(q, qb, ob, a))
            => parsed = HasResult(q, a, qb, ob)

\* For the replies of the full grammar whose answer holds no '---', the parser
\* returns the parts the reply was built from.
PlainAnswerParsed ==
    \A q \in GrammarQuestions, qb \in GrammarQuestionBoxes,
       ob \in GrammarOutlineBoxes, a \in PlainAnswers :
        (Parsed /\ response = FullReply(q, qb, ob, a))
            => parsed = HasResult(q, a, qb, ob)

\* C23: a reply that is neither the sentinel nor of the full grammar degrades
\* to the fallback (the placeholder question, the whole reply as the answer,
\* no boxes), and the parser returns no error for any reply.
C23_DeviationFallsBack ==
    /\ parsed.kind \in {"pending", "None", "Some"}
    /\ (Parsed /\ ~IsSentinel(response) /\ ~IsFullGrammar(response))
           => parsed = HasResult(PLACEHOLDER, response, NoBox, NoBox)

\* A reply without any '---' that does not begin with NONE degrades to the
\* fallback.
NoSeparatorFallsBack ==
    (Parsed /\ find(response, SEPARATOR) = 0 /\ parsed.kind = "Some")
        => parsed = HasResult(PLACEHOLDER, response, NoBox, NoBox)

\* C24: every BoundingBox the parser puts into an AnalysisResult has
\* width >= 0 and height >= 0.
C24_BoxesNonNegative ==
    \A box \in {parsed.question_box, parsed.outline_box} :
        box.some => (box.width >= 0 /\ box.height >= 0)

\* The advance accumulated over a sequence of records, 2 bytes less than the
\* length for each.
RECURSIVE SumOfAdvances(_)
SumOfAdvances(lens) ==
    IF lens = <<>> THEN 0 ELSE (Head(lens) - 2) + SumOfAdvances(Tail(lens))
AllButLast(q) == IF q = <<>> THEN <<>> ELSE SubSeq(q, 1, Len(q) - 1)
ChainWellFormed == \A i \in 1..Len(wread) : wread[i] >= 2

\* C27 as stated: for a chain of records of length >= 2 the walk advances by
\* (length - 2) for each record it reads and repeats until the accumulated
\* advance is >= the full frame byte size; the address returned is the mapping
\* end plus that accumulated offset.
C27_UntilAdvanceCoversFrame ==
    (wpc = "ok" /\ ChainWellFormed)
        => (offset = SumOfAdvances(wread) /\ offset >= screen_size_bytes)

\* C27, amended: the walk advances by (length - 2) for each record it reads
\* that is shorter than a full frame, and stops at the first record whose own
\* length is >= the full frame byte size, without advancing past it; the
\* address returned is the mapping end plus the offset accumulated before
\* that record.
C27_UntilFrameSizedRecord ==
    /\ (wpc \in {"loop", "ok"} /\ ChainWellFormed)
           => offset = SumOfAdvances(AllButLast(wread))
    /\ wpc = "ok"
           => /\ wread # <<>>
              /\ Last(wread) >= screen_size_bytes
              /\ \A i \in 1..(Len(wread) - 1) : wread[i] < screen_size_bytes
              /\ length = Last(wread)
C27_Witness ==
    /\ wpc = "ok" /\ Len(wread) >= 2 /\ offset > 0 /\ offset < screen_size_bytes

\* The rows and columns of a box that lie on the canonical image.
BoxRows(region) == {r \in region.y..(region.y + region.height - 1) : r >= 0 /\ r < 1024}
BoxColumns(region) == {x \in region.x..(region.x + region.width - 1) : x >= 0 /\ x < 768}
InkRows(region, img) ==
    {y \in BoxRows(region) : \E x \in BoxColumns(region) :
        <<x, y>> \in img.dark /\ img.luma < 200}
RowsWithinMargin(region, img) ==
    {r \in BoxRows(region) : \E y \in InkRows(region, img) : r - y <= 2 /\ y - r <= 2}
ErasedRows == {erased[i].top_left[2] : i \in 1..Len(erased)}

HeaderInkPixels(img) ==
    {p \in img.dark : p[2] < 100 /\ p[2] < img.height /\ p[1] < img.width /\ img.luma < 200}

RECURSIVE Held(_)
Held(events) ==
    IF events = <<>> THEN {}
    ELSE LET before == Held(AllButLast(events))
             ev == Last(events)
         IN  IF ev.e # "key" THEN before
             ELSE IF ev.value = 1 THEN before \cup {ev.code}
             ELSE before \ {ev.code}
\* The events between the k-th sync and the next one: the k-th key press.
SyncsIn(events) == {i \in 1..Len(events) : events[i] = Syn}
NthSync(events, k) ==
    CHOOSE i \in SyncsIn(events) : Cardinality({j \in SyncsIn(events) : j <= i}) = k
PressGroup(events, k) ==
    SubSeq(events, NthSync(events, k) + 1, NthSync(events, k + 1) - 1)
Supported(text) == SelectSeq(text, InKeyMap)

\* C28: in the event stream of type(text), shift-down is emitted exactly for
\* the characters whose table entry carries the shift flag, every key-down is
\* followed by the matching key-up (and shift-up where shift was pressed)
\* before the events of the next character, and when type returns
\* successfully no key, shift included, is held down.
C28_PressedAndReleased ==
    (klast.op = "type" /\ kdevice) =>
        /\ \A k \in 1..presses_in(klast.events) :
              /\ PressGroup(klast.events, k)[Len(PressGroup(klast.events, k)) -
                     (IF key_map(Supported(klast.text)[k]).shift THEN 1 ELSE 0)]
                   = KeyUp(key_map(Supported(klast.text)[k]).key)
              /\ KeyDown(key_map(Supported(klast.text)[k]).key)
                     \in Range(PressGroup(klast.events, k))
              /\ (KeyDown("KEY_LEFTSHIFT") \in Range(PressGroup(klast.events, k)))
                     <=> key_map(Supported(klast.text)[k]).shift
              /\ Held(PressGroup(klast.events, k)) = {}
        /\ klast.typed.ok =>
              /\ presses_in(klast.events) = Len(Supported(klast.text))
              /\ Held(klast.events) = {}
\* A shifted character after an unshifted one, typed with success.
C28_Witness ==
    /\ klast.op = "type" /\ kdevice /\ klast.typed.ok
    /\ klast.text = <<"a", "A">>
    /\ Len(klast.events) = 9

\* The contact starts and stops of a packet stream, in order.
IsContactChange(packet) == packet.e \in {"start", "stop"}
ContactChanges(stream) == SelectSeq(stream, IsContactChange)
StartsAndStopsAlternate(stream) ==
    \A i \in 1..Len(ContactChanges(stream)) :
        ContactChanges(stream)[i].e = (IF i % 2 = 1 THEN "start" ELSE "stop")
ContactActive(stream) ==
    ContactChanges(stream) # <<>> /\ Last(ContactChanges(stream)).e = "start"
MovesInsideContact(stream) ==
    \A i \in 1..Len(stream) :
        stream[i].e = "goto" => ContactActive(SubSeq(stream, 1, i))

\* C29: in the stream of any sequence of taps and swipes, contact starts and
\* contact stops strictly alternate beginning with a start, the position
\* updates of a swipe occur only between a start and the following stop, and
\* after a gesture that returned Ok no contact is active.
C29_ContactLifecycle ==
    /\ StartsAndStopsAlternate(tstream)
    /\ MovesInsideContact(tstream)
    /\ tgest.result = "Ok" => ~ContactActive(tstream)

\* While no gesture has failed the lifecycle is kept, and a gesture that
\* returns Ok always ends with a stop.
LifecycleWhileNoFailure ==
    /\ tgest.clean => (StartsAndStopsAlternate(tstream) /\ MovesInsideContact(tstream))
    /\ tgest.result = "Ok" => ~ContactActive(tstream)

\* The native points of the true cells of a grid: cell (x, y) and its
\* one-column overshoot (x + 1, y), columns and rows counted from 0.
CellPoints(model, x, y) ==
    {pen_virtual_to_input(model, <<x, y>>), pen_virtual_to_input(model, <<x + 1, y>>)}
TrueCells(bitmap) ==
    {c \in (0..1) \X (0..1) :
        c[2] + 1 <= Len(bitmap) /\ c[1] + 1 <= Len(bitmap[c[2] + 1])
            /\ bitmap[c[2] + 1][c[1] + 1]}
OnTrueCell(model, bitmap, p) ==
    \E c \in TrueCells(bitmap) : p \in CellPoints(model, c[1], c[2])
WithinTrueCell(model, bitmap, q, p) ==
    \E c \in TrueCells(bitmap) : {q, p} \subseteq CellPoints(model, c[1], c[2])
\* The contact state and the position before the i-th event of the last
\* primitive.
ContactBefore(i) == contact_after(plast.before.contact, SubSeq(plast.events, 1, i - 1))
PositionBefore(i) == position_after(plast.before.at, SubSeq(plast.events, 1, i - 1))
InContactMoves ==
    {i \in 1..Len(plast.events) : plast.events[i].e = "goto" /\ ContactBefore(i)}

\* C30: during draw_bitmap every position emitted while the pen is in contact
\* is (x, y) or (x + 1, y) of a true cell, and no movement made in contact
\* leaves the cell it started in: none crosses a false cell beyond the
\* one-column overshoot or joins two rows.
C30_InkOnlyOnTrueCells ==
    plast.op = "draw_bitmap" =>
        \A i \in InContactMoves :
            /\ OnTrueCell(device_model, plast.bitmap, plast.events[i].at)
            /\ WithinTrueCell(device_model, plast.bitmap,
                              PositionBefore(i), plast.events[i].at)

\* A draw_bitmap that starts with the pen lifted keeps every in-contact
\* position and movement on the true cells.
InkOnlyOnTrueCellsFromLifted ==
    (plast.op = "draw_bitmap" /\ ~plast.before.contact) =>
        \A i \in InContactMoves :
            /\ OnTrueCell(device_model, plast.bitmap, plast.events[i].at)
            /\ WithinTrueCell(device_model, plast.bitmap,
                              PositionBefore(i), plast.events[i].at)

\* The moves draw_line made with the pen in contact, in order
InContactPoints(events) ==
    LET idx == {i \in 1..Len(events) :
                   events[i].e = "goto" /\ contact_after(FALSE, SubSeq(events, 1, i - 1))}
        RECURSIVE Collect(_)
        Collect(i) == IF i > Len(events) THEN <<>>
                      ELSE (IF i \in idx THEN <<events[i].at>> ELSE <<>>) \o Collect(i + 1)
    IN  Collect(1)
\* p and q are at most d units apart
Within(p, q, d) ==
    (p[1] - q[1]) * (p[1] - q[1]) + (p[2] - q[2]) * (p[2] - q[2]) <= d * d
MaxStep == 5
BeginsAtP1(pts) == pts # <<>> /\ pts[1] = lends[1]
StepsBounded(pts) == \A i \in 1..(Len(pts) - 1) : Within(pts[i], pts[i + 1], MaxStep)
EndsNearP2(pts) == pts # <<>> /\ Within(pts[Len(pts)], lends[2], MaxStep)

\* C31: the in-contact positions of line(p1, p2) cover the segment: they
\* begin at p1, consecutive positions are at most 5 units apart, and the
\* last one is within 5 units of p2.
C31_LineCoversSegment ==
    (lrun.done /\ ~lrun.panics) =>
        /\ BeginsAtP1(InContactPoints(lrun.events))
        /\ StepsBounded(InContactPoints(lrun.events))
        /\ EndsNearP2(InContactPoints(lrun.events))

\* The in-contact positions begin at p1 and are at most 5 units apart.
LineBeginsAndSteps ==
    (lrun.done /\ ~lrun.panics) =>
        /\ BeginsAtP1(InContactPoints(lrun.events))
        /\ StepsBounded(InContactPoints(lrun.events))

\* The variant whose pen digitizer is mounted turned against the canvas
SwapsAndFlips(model) == model # "RemarkablePaperPro"
\* 0 <= v <= max
InRange(v, max) == v >= 0 /\ v <= max
\* The transforms have been applied to the canonical point
Transformed == gpc \in {"native", "back"}

\* native x follows canonical y and native y follows canonical x, the
\* flipped coordinate falling as canonical y grows
PenSwapFlip ==
    /\ gpen[1] = pen_virtual_to_input(device_model, <<0, gpoint[2]>>)[1]
    /\ gpen[2] = pen_virtual_to_input(device_model, <<gpoint[1], 0>>)[2]
    /\ gpoint[2] > 0 =>
            gpen[1] <= pen_virtual_to_input(device_model, <<gpoint[1], gpoint[2] - 1>>)[1]
    /\ InRange(gpen[1], max_y_value(device_model))
    /\ InRange(gpen[2], max_x_value(device_model))
TouchSwapFlip ==
    /\ gnative[1] = virtual_to_input(device_model, <<0, gpoint[2]>>)[1]
    /\ gnative[2] = virtual_to_input(device_model, <<gpoint[1], 0>>)[2]
    /\ gpoint[2] > 0 =>
            gnative[1] <= virtual_to_input(device_model, <<gpoint[1], gpoint[2] - 1>>)[1]
    /\ InRange(gnative[1], touch_screen_height(device_model))
    /\ InRange(gnative[2], touch_screen_width(device_model))
\* each native axis follows its own canonical axis, growing with it
PenScales ==
    /\ gpen[1] = pen_virtual_to_input(device_model, <<gpoint[1], 0>>)[1]
    /\ gpen[2] = pen_virtual_to_input(device_model, <<0, gpoint[2]>>)[2]
    /\ gpoint[2] > 0 =>
            gpen[2] >= pen_virtual_to_input(device_model, <<gpoint[1], gpoint[2] - 1>>)[2]
    /\ InRange(gpen[1], max_x_value(device_model))
    /\ InRange(gpen[2], max_y_value(device_model))
TouchScales ==
    /\ gnative[1] = virtual_to_input(device_model, <<gpoint[1], 0>>)[1]
    /\ gnative[2] = virtual_to_input(device_model, <<0, gpoint[2]>>)[2]
    /\ gpoint[2] > 0 =>
            gnative[2] >= virtual_to_input(device_model, <<gpoint[1], gpoint[2] - 1>>)[2]
    /\ InRange(gnative[1], touch_screen_width(device_model))
    /\ InRange(gnative[2], touch_screen_height(device_model))
\* native x follows canonical x and native y follows canonical y flipped
TouchFlipsOnly ==
    /\ gnative[1] = virtual_to_input(device_model, <<gpoint[1], 0>>)[1]
    /\ gnative[2] = virtual_to_input(device_model, <<0, gpoint[2]>>)[2]
    /\ gpoint[2] > 0 =>
            gnative[2] <= virtual_to_input(device_model, <<gpoint[1], gpoint[2] - 1>>)[2]
    /\ InRange(gnative[1], touch_screen_width(device_model))
    /\ InRange(gnative[2], touch_screen_height(device_model))

InsideWorkspace(box) ==
    /\ box.x >= 0 /\ box.y >= 0 /\ box.width >= 1 /\ box.height >= 1
    /\ box.x + box.width <= 768 /\ box.y + box.height <= 1024
\* The box the parser returned fits the workspace in both directions
FitsWorkspace(box) == box.width <= 768 /\ box.height <= 1024

\* C33: for every question box the parser returns, the clamped box handed
\* to the erase step lies inside the canonical workspace: x >= 0, y >= 0,
\* width >= 1, height >= 1, x + width <= 768, y + height <= 1024.
C33_ClampedInsideWorkspace == clamped.some => InsideWorkspace(clamped)

\* The clamp brings every box that is no larger than the workspace inside it,
\* and never lets a box reach past the right or the bottom edge.
ClampedWhenFits ==
    clamped.some =>
        /\ FitsWorkspace(parsed.question_box) => InsideWorkspace(clamped)
        /\ clamped.x + clamped.width <= 768 /\ clamped.y + clamped.height <= 1024
        /\ clamped.width >= 1 /\ clamped.height >= 1

\* C35: whenever the orchestrator starts waiting for a trigger the
\* keyboard's progress counter is 0, whatever the earlier iterations did.
C35_NoProgressOutstandingAtWait == pc = "O43" => progress_count = 0

\* After an iteration that returned Ok the progress counter is 0.
NoProgressOutstandingAfterOk == (pc = "call" /\ retval = "Ok") => progress_count = 0

\* run_iteration is returning Ok from an iteration in which no step failed
SuccessfulIteration(result) == pc = "ret_ok" /\ it.result = result /\ ~it.failed

\* C34: in a successful HasResult iteration every backspace that retracts
\* progress text is typed on a page on which progress text was typed, so no
\* progress text remains on the source page and nothing on the answer page is
\* deleted, on the reuse path and on the create path.
C34_RetractionOnTheTypedPage ==
    SuccessfulIteration("HasResult") => it.backAt \subseteq it.noteAt

\* In a successful NoResult iteration the notes and their backspaces are typed
\* on the same page.
RetractionOnTheTypedPageNoResult ==
    SuccessfulIteration("NoResult") => (it.backAt = it.noteAt /\ it.noteAt = {page})

\* Every iteration so far was a successful HasResult iteration, and there
\* was at least one
OnlyGoodIterations == book.good >= 1 /\ ~book.other

\* C36: from a source page with no answer page after it, after any number of
\* successful HasResult iterations exactly one answer page has been created:
\* the first iteration creates it, every later one reuses it.
C36_OneAnswerPageCreated == OnlyGoodIterations => book.created = 1

\* When the page after the source page shows no ink in its header rows at the
\* start and every probe decodes its capture, exactly one page is created.
OneAnswerPageAfterBlankHeader ==
    (OnlyGoodIterations /\ ~book.ink0 /\ ~book.blind /\ ~it.blind) => book.created = 1

\* C37: when an emit fails in the middle of a composite actuator operation
\* (the Ctrl+key shortcut, a tap or swipe, a pen line) the operation releases
\* what it had pressed before it returns the error: here, after key_cmd_body
\* returned Err no key is held, Ctrl included.
C37_ReleasedOnError ==
    (klast.op = "key_cmd_body" /\ klast.result = "Err") => Held(klast.events) = {}

\* When key_cmd_body returns Ok no key is held.
ReleasedOnOk ==
    (klast.op = "key_cmd_body" /\ klast.result = "Ok") => Held(klast.events) = {}

\* C38: line(p1, p2) and the rectangle primitives built on it complete
\* without a runtime fault for every pair of points, p1 = p2 included: the
\* step count used as a divisor is never zero.
C38_NoRuntimeFault == plast.result # "panic"

\* draw_line between two different points divides by a step count of at
\* least 1.
NoFaultBetweenDistinctPoints ==
    (lrun.done /\ lends[1] # lends[2]) =>
        (~lrun.panics /\ line_steps(lends[1], lends[2]) >= 1)

\* The text that follows the first '---' of a reply, less the 'ANSWER:'
\* prefix and surrounding whitespace.
AfterFirstSeparator(text) ==
    SubSeq(text, find(text, SEPARATOR) + Len(SEPARATOR), Len(text))
EntireAnswer(text) ==
    LET rest == trim(AfterFirstSeparator(text))
    IN  trim(IF starts_with(rest, ANSWER) THEN strip_prefix(rest, ANSWER) ELSE rest)

\* C39: for a reply of the full grammar the parsed answer is the entire text
\* that follows the first '---', less the 'ANSWER:' prefix and surrounding
\* whitespace, also when the answer itself contains '---': nothing after a
\* later '---' is dropped.
C39_EntireAnswerKept ==
    (Parsed /\ IsFullGrammar(response)) => parsed.answer = EntireAnswer(response)

\* When the text after the first '---' holds no further '---', the parsed
\* answer is all of it.
EntireAnswerKeptWithoutLaterSeparator ==
    (Parsed /\ parsed.kind = "Some" /\ find(response, SEPARATOR) > 0
        /\ find(AfterFirstSeparator(response), SEPARATOR) = 0)
        => parsed.answer = EntireAnswer(response)

\* C40: in dry-run mode (Touch.device is None) the trigger wait does not
\* block forever: wait_for_trigger eventually returns.
C40_DryRunWaitReturns == (~tdevice /\ tpc = "waiting") ~> (tpc = "returned")

\* Without a device the wait never leaves its loop: it neither returns nor
\* fails, whatever the number of passes.
DryRunWaitNeverLeaves == ~tdevice => (tpc = "waiting" /\ tret = NoContact)

====
